---- MODULE Spec2Model ----
(***************************************************************************)
(* Model of the content pipeline of spool-content-service:                 *)
(*   app/routers/processing.py        upload_pdf, process_pdf_task         *)
(*   app/embeddings/generator.py      EmbeddingGenerator                   *)
(*   app/neo4j_client/graph_manager.py GraphManager                        *)
(*   app/pdf_processing/extractor.py  PDFExtractor                         *)
(*   app/pinecone_client/vector_store.py VectorStore                       *)
(*   app/routers/graph.py             get_prerequisites, find_learning_path*)
(*                                                                         *)
(* The graph store is modelled at the level of the Cypher statements the   *)
(* code hands to tx.run: a statement handed to tx.run is executed inside   *)
(* the managed transaction and gives its result (for single()), and a      *)
(* failed transaction is rolled back.                                      *)
(*                                                                         *)
(* Specifications, each driving one part while the others rest:            *)
(*   Spec, SpecLive            the job registry and the background tasks   *)
(*   SpecEmbed, SpecEmbedLive  one generate_embeddings_batch call          *)
(*   SpecGraph                 create_book_graph, called again and again   *)
(*   SpecStruct                one _structure_content call                 *)
(*   SpecSegment               one _extract_concepts call                  *)
(*   SpecStore                 one store_book_vectors call                 *)
(*   SpecQuery                 the graph queries                           *)
(*   SpecIndex                 delete_book_vectors beside                  *)
(*                             update_concept_metadata calls               *)
(***************************************************************************)
EXTENDS Integers, Sequences, FiniteSets, TLC

VARIABLES
    \* ---- graph store and one GraphManager.create_book_graph caller
    graph,      \* the Neo4j store: [nodes, edges, indexes]
    gbase,      \* what the store held before the first create_book_graph
    gbook,      \* the Book handed to create_book_graph
    gst,        \* position of the running create_book_graph: [pc, idx]
    gruns,      \* number of create_book_graph calls that returned normally
    gfailat,    \* the step at which the last failed call raised, or "never"
    glast,      \* outcome of the last finished call: "none" | "ok" | "raised"
    gsnap,      \* the store when the first successful call returned
    \* ---- one EmbeddingGenerator.generate_embeddings_batch call
    texts,      \* its argument
    batch_size, \* settings.EMBEDDING_BATCH_SIZE
    dimension,  \* settings.EMBEDDING_DIMENSION
    embeddings, \* the list it builds
    est,        \* its position: [pc, i, k, attempt]
    elog,       \* the provider calls and the waits so far, in order
    \* ---- one PDFExtractor._structure_content call
    lines,      \* the lines of the pages read so far, in order
    chapters,   \* book.chapters
    current_chapter,   \* index into chapters, 0 for None
    current_section,   \* index into the current chapter's sections, 0 for None
    accumulated_text,  \* the buffer of body lines
    spc,        \* "unused" | "lines" | "done" | "graphed"
    \* ---- the job registry and the background tasks (routers/processing.py)
    processing_jobs,   \* job id -> ProcessingJob (status, progress, error_message)
    tasks,      \* job id -> the process_pdf_task of that job
    uploading,  \* the job whose upload_pdf handler is running, 0 for none
    vectors,    \* the Pinecone index: ids of the vectors it holds
    \* ---- one VectorStore.store_book_vectors call (the vector stage of a task)
    vbook,      \* its argument, the Book
    vemb,       \* concept n of the book -> what its embedding is
    vst,        \* its position: [pc, i, stored_count]
    vlog,       \* the upsert calls so far, in order: [start, ids, ok]
    \* ---- the graph queries (routers/graph.py, GraphManager.find_learning_path)
    query,      \* the last query answered: [op, from, to, result]
    \* ---- one PDFExtractor._extract_concepts call on a text of its own
    seg_text,   \* its argument, as the lines between its '\n' characters
    seg_out,    \* the list of Concepts it returned
    seg_pc,     \* "unused" | "call" | "returned"
    \* ---- the Pinecone index under delete_book_vectors and
    \* ---- update_concept_metadata (app/pinecone_client/vector_store.py)
    index,      \* vector id -> its metadata, for the vectors the index holds
    updates,    \* the update_concept_metadata calls: [pc, concept_id, patch, current, result]
    deletion    \* the delete_book_vectors call: [pc, book_id, result]

vars == <<graph, gbase, gbook, gst, gruns, gfailat, glast, gsnap,
          texts, batch_size, dimension, embeddings, est, elog,
          lines, chapters, current_chapter, current_section, accumulated_text, spc,
          processing_jobs, tasks, uploading, vectors,
          vbook, vemb, vst, vlog, query,
          seg_text, seg_out, seg_pc, index, updates, deletion>>

indexVars == <<index, updates, deletion>>

segVars == <<seg_text, seg_out, seg_pc>>

jobVars == <<processing_jobs, tasks, uploading, vectors>>

storeVars == <<vbook, vemb, vst, vlog>>

structVars == <<lines, chapters, current_chapter, current_section, accumulated_text, spc>>

embedVars == <<texts, batch_size, dimension, embeddings, est, elog>>

graphVars == <<graph, gbase, gbook, gst, gruns, gfailat, glast, gsnap>>

(***************************************************************************)
(* Bounds of the model.                                                    *)
(***************************************************************************)
MaxChapters == 2      \* chapters per book
MaxSections == 2      \* sections per book
MaxConcepts == 3      \* concepts per book
MaxRuns == 2          \* successful create_book_graph calls on one book
MaxTexts == 3         \* texts handed to generate_embeddings_batch
MaxBatchSize == 2     \* largest configured embedding batch size
MaxDimension == 2     \* largest configured embedding dimension
MaxLines == 6         \* lines of a document
MaxChapterNumber == 2 \* largest number a chapter heading carries
MaxVectorBatches == 2  \* full upsert batches of the largest Book handed to store_book_vectors
MaxJobs == 2          \* uploads
MaxTextLines == 5     \* lines of a text handed to _extract_concepts on its own
MaxMarkers == 4       \* keyword occurrences in a paragraph
MaxUpdates == 2       \* update_concept_metadata calls beside the delete

(***************************************************************************)
(* Program constants.                                                      *)
(***************************************************************************)
max_tokens == 8191    \* EmbeddingGenerator.max_tokens
stop_after_attempt == 3   \* tenacity retry of generate_embedding
min_paragraph_len == 50   \* _extract_concepts: "if len(para) < 50"
vector_batch_size == 100  \* VectorStore.batch_size

Min(a, b) == IF a < b THEN a ELSE b

RECURSIVE Flatten(_)
Flatten(ss) == IF ss = <<>> THEN <<>> ELSE Head(ss) \o Flatten(Tail(ss))

RECURSIVE SumSeq(_)
SumSeq(s) == IF s = <<>> THEN 0 ELSE Head(s) + SumSeq(Tail(s))

SeqToSet(s) == {s[i] : i \in 1..Len(s)}

(***************************************************************************)
(* Data model (app/models/content.py).  Identities are uuid4 values: one   *)
(* per object, distinct from every other.  An identity is modelled by the  *)
(* place of the object: owner (book), kind and position.                   *)
(***************************************************************************)
Ident(b, kind, i, j, k) == [b |-> b, kind |-> kind, i |-> i, j |-> j, k |-> k]

Concept(b, i, j, k) ==
    [concept_id |-> Ident(b, "concept", i, j, k),
     name       |-> <<"name", b, i, j, k>>]

Section(b, i, j, nconcepts) ==
    [section_id |-> Ident(b, "section", i, j, 0),
     number     |-> j,
     concepts   |-> [k \in 1..nconcepts |-> Concept(b, i, j, k)]]

Chapter(b, i, sections) ==
    [chapter_id |-> Ident(b, "chapter", i, 0, 0),
     number     |-> i,
     sections   |-> [j \in 1..Len(sections) |-> Section(b, i, j, sections[j])]]

\* shape: a sequence (chapters) of sequences (sections) of concept counts
Book(b, shape) ==
    [book_id  |-> Ident(b, "book", 0, 0, 0),
     title    |-> <<"title", b>>,
     chapters |-> [i \in 1..Len(shape) |-> Chapter(b, i, shape[i])]]

ChapterShapes ==
    {c \in UNION {[1..n -> 0..MaxConcepts] : n \in 0..MaxSections} :
        SumSeq(c) <= MaxConcepts}

BookShapes ==
    {s \in UNION {[1..n -> ChapterShapes] : n \in 0..MaxChapters} :
        /\ SumSeq([i \in 1..Len(s) |-> Len(s[i])]) <= MaxSections
        /\ SumSeq([i \in 1..Len(s) |-> SumSeq(s[i])]) <= MaxConcepts}

\* the concepts of a book in document order
\* (the nested loops of _create_concept_relationships and process_book)
AllConcepts(book) ==
    Flatten([i \in 1..Len(book.chapters) |->
        Flatten([j \in 1..Len(book.chapters[i].sections) |->
            book.chapters[i].sections[j].concepts])])

(***************************************************************************)
(* The graph store.  A node is (label, id property, other properties); a   *)
(* relationship is (type, start node, end node).  `copy` tells apart the   *)
(* nodes (relationships) that agree on all of these: Neo4j enforces no     *)
(* uniqueness here, only MERGE does.                                       *)
(***************************************************************************)
EmptyGraph == [nodes |-> {}, edges |-> {}, indexes |-> {}]

NoProps == [title |-> <<"unset">>]

MatchNodes(g, label, id) == {n \in g.nodes : n.label = label /\ n.id = id}

MatchEdges(g, type, from, to) ==
    {e \in g.edges : e.type = type /\ e.from = from /\ e.to = to}

\* a new node, beside the ones that already carry this label and id
NewNode(g, label, id) ==
    [g EXCEPT !.nodes = @ \cup
        {[label |-> label, id |-> id, props |-> NoProps,
          copy |-> Cardinality(MatchNodes(g, label, id)) + 1]}]

\* CREATE (n:label {id: id}) in the place of MERGE
MergeNode_create(g, label, id) == NewNode(g, label, id)

\* MERGE (n:label {id: id})
MergeNode(g, label, id) ==
    IF MatchNodes(g, label, id) = {} THEN NewNode(g, label, id) ELSE g

\* SET n.<property> = ... on every matched node
SetProps(g, label, id, props) ==
    [g EXCEPT !.nodes =
        {IF n.label = label /\ n.id = id THEN [n EXCEPT !.props = props] ELSE n
            : n \in @}]

\* a new relationship, beside the ones of this type between these nodes
NewEdge(g, type, from, to) ==
    [g EXCEPT !.edges = @ \cup
        {[type |-> type, from |-> from, to |-> to,
          copy |-> Cardinality(MatchEdges(g, type, from, to)) + 1]}]

\* CREATE (a)-[:type]->(b) in the place of MERGE
MergeEdge_create(g, type, from, to) == NewEdge(g, type, from, to)

\* MERGE (a)-[:type]->(b) for bound a and b
MergeEdge(g, type, from, to) ==
    IF MatchEdges(g, type, from, to) = {} THEN NewEdge(g, type, from, to) ELSE g

\* MATCH (a:la {id: from}) MERGE (b:lb {id: to}) SET b += props MERGE (a)-[:type]->(b)
\* a MATCH that finds no row ends the statement: nothing is merged
MatchMergeLink(g, la, from, lb, to, props, type) ==
    IF MatchNodes(g, la, from) = {} THEN g
    ELSE MergeEdge(SetProps(MergeNode(g, lb, to), lb, to, props), type, from, to)

_create_book_node(g, book) ==
    SetProps(MergeNode(g, "Book", book.book_id), "Book", book.book_id,
             [title |-> book.title])

RECURSIVE CreateConcepts(_, _, _)
CreateConcepts(g, section, concepts) ==
    IF concepts = <<>> THEN g
    ELSE CreateConcepts(
            MatchMergeLink(g, "Section", section.section_id,
                           "Concept", Head(concepts).concept_id,
                           [title |-> Head(concepts).name], "HAS_CONCEPT"),
            section, Tail(concepts))

RECURSIVE CreateSections(_, _, _)
CreateSections(g, chapter, sections) ==
    IF sections = <<>> THEN g
    ELSE CreateSections(
            CreateConcepts(
                MatchMergeLink(g, "Chapter", chapter.chapter_id,
                               "Section", Head(sections).section_id,
                               [title |-> <<"section", Head(sections).number>>],
                               "HAS_SECTION"),
                Head(sections), Head(sections).concepts),
            chapter, Tail(sections))

\* one managed transaction: the chapter, its sections, their concepts
_create_chapter_structure(g, book_id, chapter) ==
    CreateSections(
        MatchMergeLink(g, "Book", book_id, "Chapter", chapter.chapter_id,
                       [title |-> <<"chapter", chapter.number>>], "HAS_CHAPTER"),
        chapter, chapter.sections)

\* MERGE (c2)-[:PREREQUISITE]->(c1): the relationship drawn backwards
_create_prerequisite_relation_backwards(g, from_id, to_id) ==
    IF MatchNodes(g, "Concept", from_id) = {} \/ MatchNodes(g, "Concept", to_id) = {}
    THEN g
    ELSE MergeEdge(g, "PREREQUISITE", to_id, from_id)

\* MATCH (c1:Concept {id: from}) MATCH (c2:Concept {id: to}) MERGE (c1)-[:PREREQUISITE]->(c2)
_create_prerequisite_relation(g, from_id, to_id) ==
    IF MatchNodes(g, "Concept", from_id) = {} \/ MatchNodes(g, "Concept", to_id) = {}
    THEN g
    ELSE MergeEdge(g, "PREREQUISITE", from_id, to_id)

\* every later concept linked to the first one, in the place of its predecessor
_create_concept_relationships_star(concepts) ==
    [i \in 1..(IF Len(concepts) = 0 THEN 0 ELSE Len(concepts) - 1) |->
        <<concepts[1].concept_id, concepts[i + 1].concept_id>>]

\* the (from, to) pairs _create_concept_relationships writes, in order:
\* for i in range(len(concepts) - 1): (concepts[i], concepts[i + 1])
_create_concept_relationships(concepts) ==
    [i \in 1..(IF Len(concepts) = 0 THEN 0 ELSE Len(concepts) - 1) |->
        <<concepts[i].concept_id, concepts[i + 1].concept_id>>]

IndexSet ==
    {<<"Book", "id">>, <<"Chapter", "id">>, <<"Section", "id">>,
     <<"Concept", "id">>, <<"Concept", "name">>}

\* CREATE INDEX IF NOT EXISTS, five times
_ensure_indexes(g) == [g EXCEPT !.indexes = @ \cup IndexSet]

(***************************************************************************)
(* Each specification drives one part of the program; the variables of the *)
(* other parts rest at these values.                                       *)
(***************************************************************************)
EmbedIdle == [pc |-> "unused", i |-> 0, k |-> 0, attempt |-> 0]

EmbedUnused ==
    /\ texts = <<>>
    /\ batch_size = 0
    /\ dimension = 0
    /\ embeddings = <<>>
    /\ est = EmbedIdle
    /\ elog = <<>>

StructUnused ==
    /\ lines = <<>>
    /\ chapters = <<>>
    /\ current_chapter = 0
    /\ current_section = 0
    /\ accumulated_text = <<>>
    /\ spc = "unused"

JobsUnused ==
    /\ processing_jobs = <<>>
    /\ tasks = <<>>
    /\ uploading = 0
    /\ vectors = {}

NoQuery == [op |-> "none"]

QueryUnused == query = NoQuery

SegmentUnused ==
    /\ seg_text = <<>>
    /\ seg_out = <<>>
    /\ seg_pc = "unused"

NoDeletion == [pc |-> "unused", book_id |-> "none", result |-> FALSE]

IndexUnused ==
    /\ index = <<>>
    /\ updates = <<>>
    /\ deletion = NoDeletion

StoreUnused ==
    /\ vbook = Book("b1", <<>>)
    /\ vemb = <<>>
    /\ vst = [pc |-> "unused", i |-> 0, stored_count |-> 0]
    /\ vlog = <<>>

GraphUnused ==
    /\ gbook = Book("b1", <<>>)
    /\ gbase = EmptyGraph
    /\ graph = EmptyGraph
    /\ gst = [pc |-> "unused", idx |-> 0]
    /\ gruns = 0
    /\ gfailat = "never"
    /\ glast = "none"
    /\ gsnap = EmptyGraph

(***************************************************************************)
(* create_book_graph, one step per awaited call.  st = [pc, idx]:          *)
(*   "book"     execute_write(_create_book_node)                           *)
(*   "chapter"  execute_write(_create_chapter_structure) for chapter idx   *)
(*   "prereq"   execute_write(_create_prerequisite_relation) for pair idx  *)
(*   "indexes"  _ensure_indexes                                            *)
(*   "done"     returned                                                   *)
(***************************************************************************)
GraphStart == [pc |-> "book", idx |-> 0]
GraphDone == [pc |-> "done", idx |-> 0]

\* the relationships between the concepts left out
AfterChapters_norelations(book) == [pc |-> "indexes", idx |-> 0]

\* lines 33-42: the chapters are written; the pairs of
\* _create_concept_relationships follow, when there are any
AfterChapters(book) ==
    IF Len(AllConcepts(book)) >= 2 THEN [pc |-> "prereq", idx |-> 1]
    ELSE [pc |-> "indexes", idx |-> 0]

GraphNextSt(book, st) ==
    CASE st.pc = "book" ->
            IF Len(book.chapters) >= 1 THEN [pc |-> "chapter", idx |-> 1]
            ELSE AfterChapters(book)
      [] st.pc = "chapter" ->
            IF st.idx < Len(book.chapters) THEN [pc |-> "chapter", idx |-> st.idx + 1]
            ELSE AfterChapters(book)
      [] st.pc = "prereq" ->
            IF st.idx < Len(AllConcepts(book)) - 1 THEN [pc |-> "prereq", idx |-> st.idx + 1]
            ELSE [pc |-> "indexes", idx |-> 0]
      [] OTHER -> GraphDone

\* the store after the step at st has committed
GraphWrite(g, book, st) ==
    CASE st.pc = "book" -> _create_book_node(g, book)
      [] st.pc = "chapter" ->
            _create_chapter_structure(g, book.book_id, book.chapters[st.idx])
      [] st.pc = "prereq" ->
            LET p == _create_concept_relationships(AllConcepts(book))[st.idx]
            IN  _create_prerequisite_relation(g, p[1], p[2])
      [] st.pc = "indexes" -> _ensure_indexes(g)
      [] OTHER -> g

\* the store after create_book_graph has run from st to its return
RECURSIVE RunAll(_, _, _)
RunAll(g, book, st) ==
    IF st.pc = "done" THEN g
    ELSE RunAll(GraphWrite(g, book, st), book, GraphNextSt(book, st))

(***************************************************************************)
(* EmbeddingGenerator (app/embeddings/generator.py).  A text is an         *)
(* identity, a token count and whether it holds the name of a special      *)
(* token of the encoding ("<|endoftext|>"); the provider's vector for a    *)
(* text carries the text's identity in every component, the placeholder    *)
(* carries 0.  The tokens cut off at max_tokens are taken to decode to a   *)
(* text of max_tokens tokens.                                              *)
(***************************************************************************)
Text(id, ntokens, special) == [id |-> id, ntokens |-> ntokens, special |-> special]

\* self.encoding.encode(text) with the defaults of tiktoken
\* (disallowed_special="all"): a text that holds the name of a special token
\* is refused with ValueError
encode(text) ==
    IF text.special THEN [raised |-> TRUE, ntokens |-> 0]
    ELSE [raised |-> FALSE, ntokens |-> text.ntokens]

\* lines 140-149: encode, return the text or decode the first max_tokens
\* tokens; what encode raises is not caught here
_truncate_text(text) ==
    LET tokens == encode(text)
    IN  IF tokens.raised THEN [raised |-> TRUE, text |-> text]
        ELSE IF tokens.ntokens <= max_tokens THEN [raised |-> FALSE, text |-> text]
        ELSE [raised |-> FALSE, text |-> [text EXCEPT !.ntokens = max_tokens]]

\* item.embedding of the provider's response for one input
ProviderVector(text, dim) == [c \in 1..dim |-> text.id]

\* response.data for a batch: one item per input, in input order
ProviderResponse(batch, dim) ==
    [n \in 1..Len(batch) |-> ProviderVector(batch[n], dim)]

\* [0.0] * self.dimension
ZeroVector(dim) == [c \in 1..dim |-> 0]

\* texts[i:i + self.batch_size], i counted from 0
BatchSlice(ts, i, size) == SubSeq(ts, i + 1, Min(i + size, Len(ts)))

\* the new vectors put in front of the list
ExtendEmbeddings_front(embs, batch_embeddings) == batch_embeddings \o embs

\* embeddings.extend(batch_embeddings)
ExtendEmbeddings(embs, batch_embeddings) == embs \o batch_embeddings

\* the RetryError of tenacity left to propagate
ItemGiveUp_raise(embs, dim) == [raised |-> TRUE, embeddings |-> embs]

\* except: embeddings.append([0.0] * self.dimension)
ItemGiveUp(embs, dim) ==
    [raised |-> FALSE, embeddings |-> Append(embs, ZeroVector(dim))]

Event(kind, idx, ok) == [kind |-> kind, idx |-> idx, ok |-> ok]

\* line 59 (line 35): the truncation of one of the texts raises
TruncateRaises(batch) == \E n \in 1..Len(batch) : _truncate_text(batch[n]).raised

\* lines 33-47: an attempt of generate_embedding for item k of the batch at
\* i raises: in the truncation, the provider not called, or in the call
AttemptRaised(i, k) ==
    IF TruncateRaises(<<BatchSlice(texts, i, batch_size)[k]>>)
    THEN Event("item_truncate", i + k, FALSE)
    ELSE Event("item", i + k, FALSE)

\* the top of "for i in range(0, len(texts), self.batch_size)" with i = i
LoopAt(i) ==
    IF i < Len(texts) THEN [pc |-> "batch", i |-> i, k |-> 0, attempt |-> 0]
    ELSE [pc |-> "done", i |-> i, k |-> 0, attempt |-> 0]

\* "for text in batch" of the fallback, after item k of the batch at i
NextItem(i, k) ==
    IF k < Len(BatchSlice(texts, i, batch_size))
    THEN [pc |-> "item", i |-> i, k |-> k + 1, attempt |-> 1]
    ELSE LoopAt(i + batch_size)

(***************************************************************************)
(* SpecEmbed: one call of generate_embeddings_batch, every provider call   *)
(* free to fail.  At most one text is longer than max_tokens and at most   *)
(* one holds the name of a special token.                                  *)
(***************************************************************************)
InitEmbed ==
    /\ SegmentUnused
    /\ IndexUnused
    /\ QueryUnused
    /\ StoreUnused
    /\ GraphUnused
    /\ StructUnused
    /\ JobsUnused
    /\ \E n \in 0..MaxTexts : \E long \in 0..n : \E special \in 0..n :
          texts = [m \in 1..n |->
                      Text(m, IF m = long THEN max_tokens + 1 ELSE 1, m = special)]
    /\ batch_size \in 1..MaxBatchSize
    /\ dimension \in 1..MaxDimension
    /\ embeddings = <<>>
    /\ est = [pc |-> "call", i |-> 0, k |-> 0, attempt |-> 0]
    /\ elog = <<>>

\* lines 51-54: embeddings = []; the loop is entered
EmbedCall ==
    /\ est.pc = "call"
    /\ est' = LoopAt(0)
    /\ UNCHANGED <<texts, batch_size, dimension, embeddings, elog>>
    /\ UNCHANGED graphVars
    /\ UNCHANGED structVars
    /\ UNCHANGED jobVars
    /\ UNCHANGED storeVars
    /\ UNCHANGED query
    /\ UNCHANGED <<segVars, indexVars>>

\* lines 55-77: every text of the batch is truncated and the batch call
\* returns; extend, then the rate-limit sleep
EmbedBatchOk ==
    /\ est.pc = "batch"
    /\ ~TruncateRaises(BatchSlice(texts, est.i, batch_size))
    /\ LET batch == [n \in 1..Len(BatchSlice(texts, est.i, batch_size)) |->
                        _truncate_text(BatchSlice(texts, est.i, batch_size)[n]).text]
       IN  embeddings' = ExtendEmbeddings(embeddings, ProviderResponse(batch, dimension))
    /\ elog' = elog \o <<Event("batch", est.i, TRUE), Event("sleep", est.i, TRUE)>>
    /\ est' = LoopAt(est.i + batch_size)
    /\ UNCHANGED <<texts, batch_size, dimension>>
    /\ UNCHANGED graphVars
    /\ UNCHANGED structVars
    /\ UNCHANGED jobVars
    /\ UNCHANGED storeVars
    /\ UNCHANGED query
    /\ UNCHANGED <<segVars, indexVars>>

\* lines 59-61, 79-86: the truncation of a text raises and the provider is
\* not called, or the batch call raises; the fallback loop starts
EmbedBatchRaise ==
    /\ est.pc = "batch"
    /\ elog' = Append(elog,
                  IF TruncateRaises(BatchSlice(texts, est.i, batch_size))
                  THEN Event("batch_truncate", est.i, FALSE)
                  ELSE Event("batch", est.i, FALSE))
    /\ est' = NextItem(est.i, 0)
    /\ UNCHANGED <<texts, batch_size, dimension, embeddings>>
    /\ UNCHANGED graphVars
    /\ UNCHANGED structVars
    /\ UNCHANGED jobVars
    /\ UNCHANGED storeVars
    /\ UNCHANGED query
    /\ UNCHANGED <<segVars, indexVars>>

\* lines 31-43, 88-89: an attempt of generate_embedding returns a vector
EmbedItemOk ==
    /\ est.pc = "item"
    /\ ~TruncateRaises(<<BatchSlice(texts, est.i, batch_size)[est.k]>>)
    /\ LET text == _truncate_text(BatchSlice(texts, est.i, batch_size)[est.k]).text
       IN  embeddings' = Append(embeddings, ProviderVector(text, dimension))
    /\ elog' = Append(elog, Event("item", est.i + est.k, TRUE))
    /\ est' = NextItem(est.i, est.k)
    /\ UNCHANGED <<texts, batch_size, dimension>>
    /\ UNCHANGED graphVars
    /\ UNCHANGED structVars
    /\ UNCHANGED jobVars
    /\ UNCHANGED storeVars
    /\ UNCHANGED query
    /\ UNCHANGED <<segVars, indexVars>>

\* two attempts more than stop_after_attempt allows
EmbedItemRetry_more ==
    /\ est.pc = "item"
    /\ est.attempt < stop_after_attempt + 2
    /\ elog' = elog \o <<AttemptRaised(est.i, est.k),
                         Event("backoff", est.i + est.k, TRUE)>>
    /\ est' = [est EXCEPT !.attempt = @ + 1]
    /\ UNCHANGED <<texts, batch_size, dimension, embeddings>>
    /\ UNCHANGED <<graphVars, structVars, jobVars, storeVars, segVars, indexVars>>
    /\ UNCHANGED query

\* lines 27-30, 45-47: an attempt raises and tenacity waits, then retries
EmbedItemRetry ==
    /\ est.pc = "item"
    /\ est.attempt < stop_after_attempt
    /\ elog' = elog \o <<AttemptRaised(est.i, est.k),
                         Event("backoff", est.i + est.k, TRUE)>>
    /\ est' = [est EXCEPT !.attempt = @ + 1]
    /\ UNCHANGED <<texts, batch_size, dimension, embeddings>>
    /\ UNCHANGED graphVars
    /\ UNCHANGED structVars
    /\ UNCHANGED jobVars
    /\ UNCHANGED storeVars
    /\ UNCHANGED query
    /\ UNCHANGED <<segVars, indexVars>>

\* lines 27-30, 90-92: the last attempt raises; tenacity gives up
EmbedItemGiveUp ==
    /\ est.pc = "item"
    /\ est.attempt = stop_after_attempt
    /\ elog' = Append(elog, AttemptRaised(est.i, est.k))
    /\ LET r == ItemGiveUp(embeddings, dimension)
       IN  /\ embeddings' = r.embeddings
           /\ est' = IF r.raised THEN [est EXCEPT !.pc = "raised"]
                     ELSE NextItem(est.i, est.k)
    /\ UNCHANGED <<texts, batch_size, dimension>>
    /\ UNCHANGED graphVars
    /\ UNCHANGED structVars
    /\ UNCHANGED jobVars
    /\ UNCHANGED storeVars
    /\ UNCHANGED query
    /\ UNCHANGED <<segVars, indexVars>>

NextEmbed ==
    \/ EmbedCall
    \/ EmbedBatchOk
    \/ EmbedBatchRaise
    \/ EmbedItemOk
    \/ EmbedItemRetry
    \/ EmbedItemGiveUp

SpecEmbed == InitEmbed /\ [][NextEmbed]_vars

\* The coroutine goes on whenever the call it awaits has returned or raised
\* and whenever a sleep or a backoff is over.
SpecEmbedLive == InitEmbed /\ [][NextEmbed]_vars /\ WF_vars(NextEmbed)

(***************************************************************************)
(* Claims about generate_embeddings_batch (checked under SpecEmbed).       *)
(***************************************************************************)
EmbedReturned == est.pc = "done"

\* positions in the log of the attempts of generate_embedding for text n
ItemCalls(n) ==
    {x \in 1..Len(elog) : elog[x].kind \in {"item", "item_truncate"} /\ elog[x].idx = n}

\* the 0-based start of the batch text n (1-based) belongs to
BatchStartOf(n) == ((n - 1) \div batch_size) * batch_size

BatchCallOk(i) == \E x \in 1..Len(elog) : elog[x] = Event("batch", i, TRUE)
BatchCallRaised(i) ==
    \E x \in 1..Len(elog) :
        elog[x] \in {Event("batch", i, FALSE), Event("batch_truncate", i, FALSE)}

\* text n got a vector from the provider, by its batch call or by one of
\* its own attempts
ProviderAnswered(n) ==
    \/ BatchCallOk(BatchStartOf(n))
    \/ \E x \in ItemCalls(n) : elog[x].ok

\* C5: the list generate_embeddings_batch returns has the length of texts,
\* and its i-th element is the vector for texts[i]: the provider's vector of
\* that text when a provider call for it succeeded, the zero placeholder
\* otherwise; for every batch size and pattern of failing calls.
C5_OrderPreserving ==
    EmbedReturned =>
        /\ Len(embeddings) = Len(texts)
        /\ \A n \in 1..Len(texts) :
              embeddings[n] = IF ProviderAnswered(n)
                              THEN ProviderVector(texts[n], dimension)
                              ELSE ZeroVector(dimension)

C5_Witness ==
    /\ EmbedReturned
    /\ Len(texts) = 3
    /\ batch_size = 2
    /\ BatchCallRaised(0)
    /\ BatchCallOk(2)
    /\ embeddings[1] = ZeroVector(dimension)
    /\ embeddings[2] = ProviderVector(texts[2], dimension)
    /\ embeddings[3] = ProviderVector(texts[3], dimension)

\* C6: generate_embeddings_batch never raises; a failed batch call is
\* followed by one attempt sequence (1 to stop_after_attempt provider calls,
\* all but the last failing) for each text of that batch; a text whose
\* attempts all fail gets a zero vector of length dimension; the other texts
\* of the batch and all later batches are still processed.
C6_NeverRaises ==
    /\ est.pc # "raised"
    /\ EmbedReturned =>
        /\ Len(embeddings) = Len(texts)
        /\ \A n \in 1..Len(texts) :
              /\ BatchCallRaised(BatchStartOf(n)) =>
                    /\ Cardinality(ItemCalls(n)) \in 1..stop_after_attempt
                    /\ \A x, y \in ItemCalls(n) : x < y => ~elog[x].ok
                    /\ (\A x \in ItemCalls(n) : ~elog[x].ok) =>
                          /\ Cardinality(ItemCalls(n)) = stop_after_attempt
                          /\ Len(embeddings[n]) = dimension
                          /\ \A c \in 1..dimension : embeddings[n][c] = 0
              /\ ~BatchCallRaised(BatchStartOf(n)) =>
                    /\ ItemCalls(n) = {}
                    /\ BatchCallOk(BatchStartOf(n))

C6_Witness ==
    /\ EmbedReturned
    /\ Len(texts) = 3
    /\ batch_size = 2
    /\ dimension = 2
    /\ BatchCallRaised(0)
    /\ Cardinality(ItemCalls(1)) = stop_after_attempt
    /\ \A x \in ItemCalls(1) : ~elog[x].ok
    /\ embeddings[1] = <<0, 0>>
    /\ embeddings[2] = ProviderVector(texts[2], dimension)
    /\ BatchCallOk(2)

\* the places of the log where a truncation raised
TruncateRaisedAt ==
    {x \in 1..Len(elog) : elog[x].kind \in {"batch_truncate", "item_truncate"}}

\* C23: _truncate_text never raises; the text it returns has at most
\* max_tokens tokens, is the text it was given when that is within the
\* limit, and is returned unchanged when truncated again.
C23_TruncateNeverRaises ==
    /\ TruncateRaisedAt = {}
    /\ \A n \in 1..Len(texts) :
          LET r == _truncate_text(texts[n])
          IN  ~r.raised =>
                 /\ r.text.ntokens <= max_tokens
                 /\ texts[n].ntokens <= max_tokens => r.text = texts[n]
                 /\ _truncate_text(r.text) = r

\* the places of the log where the provider was called
ProviderCalls == {x \in 1..Len(elog) : elog[x].kind \in {"batch", "item"}}

\* the places of the log where the call waited: the rate-limit sleep or a
\* backoff of the retry
Delays == {x \in 1..Len(elog) : elog[x].kind \in {"sleep", "backoff"}}

\* the 0-based start of the batch a provider call was made for
BatchOfCall(x) ==
    IF elog[x].kind = "batch" THEN elog[x].idx ELSE BatchStartOf(elog[x].idx)

\* C24: between a provider call made for one batch and the next provider
\* call, when that is made for another batch, a delay takes place, whether
\* the earlier batch succeeded or fell back to per-item calls.
C24_DelayBetweenBatches ==
    \A x \in ProviderCalls : \A y \in ProviderCalls :
        (/\ x < y
         /\ BatchOfCall(x) # BatchOfCall(y)
         /\ \A z \in ProviderCalls : ~(x < z /\ z < y))
        => \E d \in Delays : x < d /\ d < y

\* the provider calls made for the batch that starts at i (0-based)
CallsOfBatch(i) == {x \in ProviderCalls : BatchOfCall(x) = i}

\* the provider calls of the fallback for text n
ItemProviderCalls(n) == {x \in ProviderCalls : elog[x].kind = "item" /\ elog[x].idx = n}

BatchStarts == {i \in 0..Len(texts) : i < Len(texts) /\ i % batch_size = 0}

CallsBounded ==
    /\ \A n \in 1..Len(texts) :
          /\ Cardinality(ItemProviderCalls(n)) <= 3
          /\ Cardinality(ItemCalls(n)) <= 3
          /\ (Len(embeddings) >= n /\ ~ProviderAnswered(n)) =>
                /\ embeddings[n] = ZeroVector(dimension)
                /\ Cardinality(ItemCalls(n)) = 3
    /\ \A i \in BatchStarts :
          Cardinality(CallsOfBatch(i)) <= 1 + 3 * Len(BatchSlice(texts, i, batch_size))

\* C25: in the fallback a text is submitted to the provider at most 3 times
\* and gets the zero vector only after its third attempt failed; the
\* provider is called at most 1 + 3n times for a batch of n texts; and
\* generate_embeddings_batch returns.
C25_BoundedCallsAndTermination == [](CallsBounded) /\ <>(EmbedReturned)

\* a batch of two texts took 1 + 3 * 2 provider calls, all of them failing,
\* and the call returned
C25_Witness ==
    /\ EmbedReturned
    /\ batch_size = 2
    /\ Len(texts) >= 2
    /\ Cardinality(CallsOfBatch(0)) = 7
    /\ embeddings[1] = ZeroVector(dimension)
    /\ embeddings[2] = ZeroVector(dimension)

(***************************************************************************)
(* PDFExtractor._structure_content (app/pdf_processing/extractor.py).      *)
(* A line is modelled by what the patterns make of it after strip():       *)
(*   "chapter"  matches a chapter pattern ("Chapter 2: Title", "2. Title") *)
(*   "section"  matches no chapter pattern and a section pattern           *)
(*              ("1.1 Title", "Section 1.1: Title", "A. Title")            *)
(*   "body"     matches neither; len is its number of characters           *)
(*   "blank"    is empty                                                   *)
(* `lines` holds the lines read so far that were not empty: an empty line  *)
(* is passed over before anything looks at it.                             *)
(***************************************************************************)
Line(form, num, len) == [form |-> form, num |-> num, len |-> len]

LineAlphabet ==
    {Line("chapter", n, 0) : n \in 1..MaxChapterNumber}
    \cup {Line("section", 0, 10), Line("blank", 0, 0)}
    \cup {Line("body", 0, len) : len \in {20, 60}}

\* a section heading taken for a chapter heading (chapter "0")
_match_chapter_loose(line) ==
    IF line.form \in {"chapter", "section"}
    THEN [matched |-> TRUE, number |-> line.num]
    ELSE [matched |-> FALSE, number |-> 0]

\* int(match.group(1)), match.group(2).strip() of the first chapter pattern
\* that matches, or None
_match_chapter(line) ==
    IF line.form = "chapter" THEN [matched |-> TRUE, number |-> line.num]
    ELSE [matched |-> FALSE, number |-> 0]

_match_section(line) == line.form = "section"

\* the keyword lists of _classify_content, lines 224-230
ExampleKeywords == {"example:", "for instance", "e.g.", "such as"}

FormulaKeywords == {"=", "formula", "equation"}

ExerciseKeywords == {"exercise:", "problem:", "question:"}

DefinitionKeywords == {"definition:", "is defined as", "means that"}

\* A text is modelled by its lines and a line by its number of characters
\* (len), the white space it starts with (lead) and ends with (trail), and
\* the keywords that occur in it (markers), each written in small letters or
\* in capitals.  A line of white space only has lead = len.
Occurrence(keyword, capitals) == [keyword |-> keyword, capitals |-> capitals]

\* text.lower(): the keywords that are substrings of the lowered text
Lower(occurrences) == {o.keyword : o \in occurrences}

\* the formula keywords tested first
_classify_content_formula_first(occurrences) ==
    LET text_lower == Lower(occurrences)
    IN  IF text_lower \cap FormulaKeywords # {} THEN "formula"
        ELSE IF text_lower \cap ExampleKeywords # {} THEN "example"
        ELSE IF text_lower \cap ExerciseKeywords # {} THEN "exercise"
        ELSE IF text_lower \cap DefinitionKeywords # {} THEN "definition"
        ELSE "explanation"

\* lines 220-233: "if any(keyword in text_lower for keyword in [...])",
\* elif by elif
_classify_content(occurrences) ==
    LET text_lower == Lower(occurrences)
    IN  IF text_lower \cap ExampleKeywords # {} THEN "example"
        ELSE IF text_lower \cap FormulaKeywords # {} THEN "formula"
        ELSE IF text_lower \cap ExerciseKeywords # {} THEN "exercise"
        ELSE IF text_lower \cap DefinitionKeywords # {} THEN "definition"
        ELSE "explanation"

\* the keyword occurrences of a paragraph: those of its lines
ParagraphOccurrences(para) == UNION {para[n].markers : n \in 1..Len(para)}

\* len('\n'.join(para)): the characters of the lines and one newline between
\* two lines
RECURSIVE JoinedLen(_)
JoinedLen(para) ==
    IF para = <<>> THEN 0
    ELSE IF Len(para) = 1 THEN para[1].len
    ELSE para[1].len + 1 + JoinedLen(Tail(para))

IsSpace(line) == line.lead = line.len

RECURSIVE LStrip(_)
LStrip(para) ==
    IF para # <<>> /\ IsSpace(Head(para)) THEN LStrip(Tail(para)) ELSE para

RECURSIVE RStrip(_)
RStrip(para) ==
    IF para # <<>> /\ IsSpace(para[Len(para)])
    THEN RStrip(SubSeq(para, 1, Len(para) - 1))
    ELSE para

\* len(p.strip()): the white space at the two ends of the paragraph, lines
\* of white space with their newlines included, does not count
StrippedLen(para) ==
    LET core == RStrip(LStrip(para))
    IN  IF core = <<>> THEN 0
        ELSE JoinedLen(core) - core[1].lead - core[Len(core)].trail

\* text.split('\n\n') on the joined buffer: a paragraph ends where a buffer
\* element is the empty string; empty paragraphs are filtered out
RECURSIVE SplitParagraphs(_, _)
SplitParagraphs(buffer, para) ==
    IF buffer = <<>> THEN (IF para = <<>> THEN <<>> ELSE <<para>>)
    ELSE IF Head(buffer).len = 0
         THEN (IF para = <<>> THEN <<>> ELSE <<para>>) \o SplitParagraphs(Tail(buffer), <<>>)
         ELSE SplitParagraphs(Tail(buffer), Append(para, Head(buffer)))

\* a paragraph of exactly 50 characters skipped as well
SkipParagraph_atmost(para) == StrippedLen(para) <= min_paragraph_len

\* lines 200-202: "if len(para) < 50: continue", para being p.strip()
SkipParagraph(para) == StrippedLen(para) < min_paragraph_len

\* lines 199-216: one Concept per paragraph that is not skipped
RECURSIVE ConceptsOf(_)
ConceptsOf(paragraphs) ==
    IF paragraphs = <<>> THEN <<>>
    ELSE (IF SkipParagraph(Head(paragraphs)) THEN <<>>
          ELSE <<[content |-> Head(paragraphs),
                  type    |-> _classify_content(ParagraphOccurrences(Head(paragraphs)))]>>)
         \o ConceptsOf(Tail(paragraphs))

\* the buffer is a sequence of lines, each with its place in the text (pos)
_extract_concepts(buffer) == ConceptsOf(SplitParagraphs(buffer, <<>>))

\* "if current_section and accumulated_text:" extend the section's concepts
\* and empty the buffer; otherwise nothing is touched
Flush(chs, cc, cs, buffer) ==
    IF cs # 0 /\ buffer # <<>>
    THEN [chapters |-> [chs EXCEPT ![cc].sections[cs].concepts =
                            @ \o _extract_concepts(buffer)],
          buffer   |-> <<>>]
    ELSE [chapters |-> chs, buffer |-> buffer]

(***************************************************************************)
(* SpecStruct: _structure_content reads a document line by line.           *)
(***************************************************************************)
InitStruct ==
    /\ SegmentUnused
    /\ IndexUnused
    /\ QueryUnused
    /\ StoreUnused
    /\ GraphUnused
    /\ EmbedUnused
    /\ JobsUnused
    /\ lines = <<>>
    /\ chapters = <<>>
    /\ current_chapter = 0
    /\ current_section = 0
    /\ accumulated_text = <<>>
    /\ spc = "lines"

MoreLines == spc = "lines" /\ Len(lines) < MaxLines

\* the empty line not skipped: it goes to the buffer like any other line
StructBlank_kept ==
    /\ MoreLines
    /\ Len(accumulated_text) < MaxLines
    /\ \E line \in LineAlphabet :
          /\ line.form = "blank"
          /\ accumulated_text' =
                Append(accumulated_text,
                       [pos |-> 0, len |-> 0, lead |-> 0, trail |-> 0, markers |-> {}])
    /\ UNCHANGED <<lines, chapters, current_chapter, current_section, spc>>
    /\ UNCHANGED <<graphVars, embedVars, jobVars, storeVars, segVars, indexVars>>
    /\ UNCHANGED query

\* lines 115-117: an empty line is skipped ("continue"): nothing changes
StructBlank ==
    /\ MoreLines
    /\ \E line \in LineAlphabet : line.form = "blank"
    /\ UNCHANGED <<lines, chapters, current_chapter, current_section, accumulated_text, spc>>
    /\ UNCHANGED <<graphVars, embedVars, jobVars>>
    /\ UNCHANGED storeVars
    /\ UNCHANGED query
    /\ UNCHANGED <<segVars, indexVars>>

\* lines 119-138: a chapter heading
StructChapter ==
    /\ MoreLines
    /\ \E line \in LineAlphabet :
          /\ _match_chapter(line).matched
          /\ lines' = Append(lines, line)
          /\ LET f == Flush(chapters, current_chapter, current_section, accumulated_text)
             IN  /\ chapters' = Append(f.chapters,
                        [number |-> _match_chapter(line).number,
                         heading |-> Len(lines) + 1,
                         sections |-> <<>>])
                 /\ accumulated_text' = f.buffer
          /\ current_chapter' = Len(chapters) + 1
          /\ current_section' = 0
    /\ UNCHANGED spc
    /\ UNCHANGED <<graphVars, embedVars, jobVars>>
    /\ UNCHANGED storeVars
    /\ UNCHANGED query
    /\ UNCHANGED <<segVars, indexVars>>

\* lines 140-158: a section heading while a chapter is open
StructSection ==
    /\ MoreLines
    /\ current_chapter # 0
    /\ \E line \in LineAlphabet :
          /\ line.form # "blank"
          /\ ~_match_chapter(line).matched
          /\ _match_section(line)
          /\ lines' = Append(lines, line)
          /\ LET f == Flush(chapters, current_chapter, current_section, accumulated_text)
             IN  /\ chapters' = [f.chapters EXCEPT ![current_chapter].sections =
                        Append(@, [heading |-> Len(lines) + 1, concepts |-> <<>>])]
                 /\ accumulated_text' = f.buffer
          /\ current_section' = Len(chapters[current_chapter].sections) + 1
    /\ UNCHANGED <<current_chapter, spc>>
    /\ UNCHANGED <<graphVars, embedVars, jobVars>>
    /\ UNCHANGED storeVars
    /\ UNCHANGED query
    /\ UNCHANGED <<segVars, indexVars>>

\* lines 115, 160-161: any other line goes to the buffer, stripped
StructBody ==
    /\ MoreLines
    /\ \E line \in LineAlphabet :
          /\ line.form # "blank"
          /\ ~_match_chapter(line).matched
          /\ ~(_match_section(line) /\ current_chapter # 0)
          /\ lines' = Append(lines, line)
          /\ accumulated_text' =
                Append(accumulated_text,
                       [pos |-> Len(lines) + 1, len |-> line.len,
                        lead |-> 0, trail |-> 0, markers |-> {}])
    /\ UNCHANGED <<chapters, current_chapter, current_section, spc>>
    /\ UNCHANGED <<graphVars, embedVars, jobVars>>
    /\ UNCHANGED storeVars
    /\ UNCHANGED query
    /\ UNCHANGED <<segVars, indexVars>>

\* lines 163-168: the pages are exhausted; the last flush, return book
StructReturn ==
    /\ spc = "lines"
    /\ LET f == Flush(chapters, current_chapter, current_section, accumulated_text)
       IN  /\ chapters' = f.chapters
           /\ accumulated_text' = f.buffer
    /\ spc' = "done"
    /\ UNCHANGED <<lines, current_chapter, current_section>>
    /\ UNCHANGED <<graphVars, embedVars, jobVars>>
    /\ UNCHANGED storeVars
    /\ UNCHANGED query
    /\ UNCHANGED <<segVars, indexVars>>

\* line 168, "return book": the Book the recognizer built, every object with
\* its own fresh identity and every chapter with the number of its heading
ReturnedBook ==
    LET shape == [i \in 1..Len(chapters) |->
                    [j \in 1..Len(chapters[i].sections) |->
                        Len(chapters[i].sections[j].concepts)]]
        book == Book("b1", shape)
    IN  [book EXCEPT !.chapters =
            [i \in 1..Len(chapters) |->
                [book.chapters[i] EXCEPT !.number = chapters[i].number]]]

\* process_pdf_task line 121: create_book_graph runs on the returned Book
\* and returns, every statement committed
StructGraph ==
    /\ spc = "done"
    /\ graph' = RunAll(graph, ReturnedBook, GraphStart)
    /\ spc' = "graphed"
    /\ UNCHANGED <<lines, chapters, current_chapter, current_section, accumulated_text>>
    /\ UNCHANGED <<gbase, gbook, gst, gruns, gfailat, glast, gsnap>>
    /\ UNCHANGED <<embedVars, jobVars>>
    /\ UNCHANGED storeVars
    /\ UNCHANGED query
    /\ UNCHANGED <<segVars, indexVars>>

NextStruct ==
    \/ StructBlank
    \/ StructChapter
    \/ StructSection
    \/ StructBody
    \/ StructReturn
    \/ StructGraph

SpecStruct == InitStruct /\ [][NextStruct]_vars

(***************************************************************************)
(* Claims about _structure_content (checked under SpecStruct).             *)
(***************************************************************************)
\* the chapter heading that line p follows, 0 when none does
ChapterBefore(p) ==
    LET hs == {q \in 1..(p - 1) : _match_chapter(lines[q]).matched}
    IN  IF hs = {} THEN 0 ELSE CHOOSE q \in hs : \A r \in hs : r <= q

\* line p is body text: neither blank nor a heading that is taken as one
IsBodyLine(p) ==
    /\ lines[p].form # "blank"
    /\ ~_match_chapter(lines[p]).matched
    /\ ~(_match_section(lines[p]) /\ ChapterBefore(p) # 0)

\* body line p comes before the first section heading of its chapter, or
\* before every chapter heading
BeforeFirstSection(p) ==
    /\ IsBodyLine(p)
    /\ \A q \in (ChapterBefore(p) + 1)..(p - 1) :
          ~(_match_section(lines[q]) /\ ChapterBefore(p) # 0)

\* the places in the document of the lines that make up some Concept
ConceptLines ==
    UNION {UNION {UNION {{chapters[i].sections[j].concepts[k].content[n].pos
                            : n \in 1..Len(chapters[i].sections[j].concepts[k].content)}
                        : k \in 1..Len(chapters[i].sections[j].concepts)}
                  : j \in 1..Len(chapters[i].sections)}
           : i \in 1..Len(chapters)}

\* C10: a body line that comes before the first section heading of its
\* chapter (or before any chapter heading) is part of the content of no
\* Concept of the returned Book.
C10_PreSectionLinesDropped ==
    spc = "done" => \A p \in 1..Len(lines) : BeforeFirstSection(p) => p \notin ConceptLines

\* the document holds a line that matches a chapter pattern
HasChapterHeading == \E p \in 1..Len(lines) : lines[p].form = "chapter"

\* C11: for a document in which no line matches a chapter pattern, the
\* returned Book has zero Chapters (hence no Section and no Concept), also
\* when lines match section patterns.
C11_NoHeadingNoChapter ==
    (spc = "done" /\ ~HasChapterHeading) => chapters = <<>>

\* a returned Book for a document of section headings and long body lines and
\* no chapter heading: it has no chapter
C11_Witness ==
    /\ spc = "done"
    /\ ~HasChapterHeading
    /\ \E p \in 1..Len(lines) : _match_section(lines[p])
    /\ \E p \in 1..Len(lines) : lines[p].form = "body" /\ lines[p].len >= min_paragraph_len
    /\ chapters = <<>>

\* the document of the end-to-end scenario: two chapter headings, each
\* followed by one section heading and one body of at least 50 characters
TwoChapterDocument ==
    /\ Len(lines) = 6
    /\ \A p \in {1, 4} : lines[p].form = "chapter"
    /\ \A p \in {2, 5} : lines[p].form = "section"
    /\ \A p \in {3, 6} : lines[p].form = "body" /\ lines[p].len >= min_paragraph_len

PrereqPairs(g) == {<<e.from, e.to>> : e \in {x \in g.edges : x.type = "PREREQUISITE"}}

EdgesOfType(g, type) == {e \in g.edges : e.type = type}

C19_ChapterNumbersUnique ==
    spc = "done" =>
        \A i, j \in 1..Len(chapters) :
            i # j => chapters[i].number # chapters[j].number

\* C26: every Section of the Book _structure_content builds holds at most
\* one Concept, at every point of the reading and in the Book returned:
\* empty lines never reach the buffer, a section's buffer is flushed once,
\* and what is flushed is one paragraph.
C26_OneConceptPerSection ==
    \A i \in 1..Len(chapters) : \A j \in 1..Len(chapters[i].sections) :
        /\ Len(chapters[i].sections[j].concepts) <= 1
        /\ \A k \in 1..Len(chapters[i].sections[j].concepts) :
              \A n \in 1..Len(chapters[i].sections[j].concepts[k].content) :
                 chapters[i].sections[j].concepts[k].content[n].len > 0

\* a section read to its end whose body had two lines of 60 characters, each
\* long enough for a Concept of its own (the empty lines read between them
\* left no trace): the section holds one Concept, made of both lines
C26_Witness ==
    /\ spc = "done"
    /\ \E i \in 1..Len(chapters) : \E j \in 1..Len(chapters[i].sections) :
          /\ Len(chapters[i].sections[j].concepts) = 1
          /\ Len(chapters[i].sections[j].concepts[1].content) = 2
          /\ \A n \in 1..2 :
                chapters[i].sections[j].concepts[1].content[n].len >= min_paragraph_len

(***************************************************************************)
(* VectorStore.store_book_vectors (app/pinecone_client/vector_store.py).   *)
(* emb[n] tells what concept n of the book carries as its embedding:       *)
(* "none" (None), "vector" (from the provider) or "zero" (placeholder).    *)
(***************************************************************************)
\* the placeholder of zeros taken for no embedding
HasEmbedding_nonzero(c) == c.embedding = "vector"

\* "if concept.embedding": None is falsy, a list of floats is truthy
HasEmbedding(c) == c.embedding # "none"

\* every concept collected, with or without an embedding
VectorData_all(concepts, emb) ==
    [n \in 1..Len(concepts) |-> concepts[n].concept_id]

\* lines 27-35: the concepts with a truthy embedding, in document order
VectorData(concepts, emb) ==
    LET withemb == SelectSeq([n \in 1..Len(concepts) |->
                                [concept_id |-> concepts[n].concept_id,
                                 embedding  |-> emb[n]]],
                             HasEmbedding)
    IN  [n \in 1..Len(withemb) |-> withemb[n].concept_id]

NumBatches(n, size) == (n + size - 1) \div size

\* lines 37-70: the batches whose upsert does not raise are stored and
\* counted; failed is the set of batches (1, 2, ...) whose upsert raises
store_book_vectors(book, emb, failed) ==
    LET data == VectorData(AllConcepts(book), emb)
        kept == {n \in 1..Len(data) : (((n - 1) \div vector_batch_size) + 1) \notin failed}
    IN  [stored |-> {data[n] : n \in kept}, stored_count |-> Cardinality(kept)]

(***************************************************************************)
(* upload_pdf and process_pdf_task (app/routers/processing.py).            *)
(***************************************************************************)
JobIds == 1..MaxJobs

NoMessage == "None"

\* ProcessingJob(job_id=..., status=ProcessingStatus.PENDING)
ProcessingJob ==
    [status |-> "pending", progress |-> 0, error_message |-> NoMessage]

\* the shapes of the Books the extractor hands back in this specification:
\* no chapter; two chapters of one section and one concept each
JobShapes == {<<>>, <<<<1>>, <<1>>>>}

\* called: process_book has called the embedding provider;
\* submitted: the ids of the vectors store_book_vectors handed to upsert
NoTask ==
    [pc |-> "none", gst |-> [pc |-> "unused", idx |-> 0], shape |-> <<>>,
     emb |-> <<>>, stages |-> <<>>, called |-> FALSE, submitted |-> <<>>]

\* what generate_embeddings_batch returns for n texts: one element per
\* text, the provider's vector or the zero placeholder
EmbeddingLists(n) == [1..n -> {"vector", "zero"}]

\* the provider called once whatever the number of texts
ProviderCalled_always(embs) == {TRUE}

\* generator.py lines 54-61: whether the provider was called.  The loop body
\* does not run for an empty list; a vector of the provider comes from a
\* call; the placeholders alone come with or without one (every truncation
\* raised)
ProviderCalled(embs) ==
    {c \in BOOLEAN :
        /\ Len(embs) = 0 => ~c
        /\ (\E n \in 1..Len(embs) : embs[n] = "vector") => c}

\* generator.py lines 126-129: "if i < len(embeddings):
\* concept.embedding = embeddings[i]"
AssignEmbeddings(emb, embs) ==
    [i \in 1..Len(emb) |-> IF i <= Len(embs) THEN embs[i] ELSE emb[i]]

BookOfTask(j) == Book(j, tasks[j].shape)

\* the stage whose call is the last entry of the log has returned / raised
Returned(log) == [log EXCEPT ![Len(log)].outcome = "returned"]
Raised(log) == [log EXCEPT ![Len(log)].outcome = "raised"]
Invoke(log, stage) == Append(log, [stage |-> stage, outcome |-> "running"])

\* the job goes back to the queue in the place of failing
FailJob_requeue(job, message) ==
    [job EXCEPT !.status = "pending", !.error_message = message]

\* progress reset in the except clause
FailJob_reset(job, message) ==
    [job EXCEPT !.status = "failed", !.error_message = message, !.progress = 0]

\* lines 140-144 (and 82-85): job.status = FAILED; job.error_message = str(e)
FailJob(job, message) ==
    [job EXCEPT !.status = "failed", !.error_message = message]

\* the assignment after the embedding stage left out
ProgressAfter_noembed(stage) ==
    CASE stage = "extract" -> 25
      [] stage = "embed" -> 25
      [] OTHER -> 75

\* lines 109, 116, 123: job.progress = 25 / 50 / 75 after a stage returned
ProgressAfter(stage) ==
    CASE stage = "extract" -> 25
      [] stage = "embed" -> 50
      [] OTHER -> 75

\* the status set without the progress
CompleteJob_noprogress(job) == [job EXCEPT !.status = "completed"]

\* lines 130-131: job.progress = 100; job.status = COMPLETED
CompleteJob(job) == [job EXCEPT !.progress = 100, !.status = "completed"]

\* a stage failure logged and the next stage started all the same
AfterRaise_continue(stage) ==
    CASE stage = "extract" -> "embed"
      [] stage = "embed" -> "graph"
      [] stage = "graph" -> "vector"
      [] OTHER -> "finished"

\* the try block is left for the except clause: no later stage runs
AfterRaise(stage) == "finished"

\* the except clause marks every registered job failed
TaskRaise_all(j, stage, message) ==
    /\ processing_jobs' = [k \in 1..Len(processing_jobs) |->
                                FailJob(processing_jobs[k], message)]
    /\ tasks' = [tasks EXCEPT ![j].pc = "finished", ![j].stages = Raised(@)]

\* what a task does when the call of `stage` raised with `message`
TaskRaise(j, stage, message) ==
    /\ processing_jobs' = [processing_jobs EXCEPT ![j] = FailJob(@, message)]
    /\ tasks' = [tasks EXCEPT
            ![j].pc = AfterRaise(stage),
            ![j].gst = IF AfterRaise(stage) = "graph" THEN GraphStart ELSE @,
            ![j].stages = IF AfterRaise(stage) = "finished" THEN Raised(@)
                          ELSE Invoke(Raised(@), AfterRaise(stage))]

InitJobs ==
    /\ SegmentUnused
    /\ IndexUnused
    /\ QueryUnused
    /\ StoreUnused
    /\ GraphUnused
    /\ EmbedUnused
    /\ StructUnused
    /\ processing_jobs = <<>>
    /\ tasks = <<>>
    /\ uploading = 0
    /\ vectors = {}

\* upload_pdf, lines 44-55: the job is created and registered.  The handler
\* does not await between here and its return (the S3 client is blocking),
\* so nothing else runs until UploadStored or UploadFailed.  A request that
\* fails validation (lines 33-42) creates no job and changes nothing.
UploadCreate ==
    /\ uploading = 0
    /\ Len(processing_jobs) < MaxJobs
    /\ processing_jobs' = Append(processing_jobs, ProcessingJob)
    /\ tasks' = Append(tasks, NoTask)
    /\ uploading' = Len(processing_jobs) + 1
    /\ UNCHANGED vectors
    /\ UNCHANGED <<graphVars, embedVars, structVars>>
    /\ UNCHANGED storeVars
    /\ UNCHANGED query
    /\ UNCHANGED <<segVars, indexVars>>

\* upload_pdf, lines 57-80: put_object returned, the task is scheduled
UploadStored ==
    /\ uploading # 0
    /\ tasks' = [tasks EXCEPT ![uploading].pc = "queued"]
    /\ uploading' = 0
    /\ UNCHANGED <<processing_jobs, vectors>>
    /\ UNCHANGED <<graphVars, embedVars, structVars>>
    /\ UNCHANGED storeVars
    /\ UNCHANGED query
    /\ UNCHANGED <<segVars, indexVars>>

\* upload_pdf, lines 82-86: put_object raised, no task is scheduled
UploadFailed ==
    /\ uploading # 0
    /\ processing_jobs' = [processing_jobs EXCEPT ![uploading] = FailJob(@, "upload failed")]
    /\ uploading' = 0
    /\ UNCHANGED <<tasks, vectors>>
    /\ UNCHANGED <<graphVars, embedVars, structVars>>
    /\ UNCHANGED storeVars
    /\ UNCHANGED query
    /\ UNCHANGED <<segVars, indexVars>>

\* process_pdf_task, lines 96-107: status PROCESSING, the extractor is called
TaskStart(j) ==
    /\ uploading = 0
    /\ tasks[j].pc = "queued"
    /\ processing_jobs' = [processing_jobs EXCEPT ![j].status = "processing"]
    /\ tasks' = [tasks EXCEPT ![j].pc = "extract",
                              ![j].stages = Invoke(@, "extract")]
    /\ UNCHANGED <<uploading, vectors>>
    /\ UNCHANGED <<graphVars, embedVars, structVars>>
    /\ UNCHANGED storeVars
    /\ UNCHANGED query
    /\ UNCHANGED <<segVars, indexVars>>

\* lines 107-114: the extractor returned a Book; progress 25; embedding starts
ExtractReturn(j) ==
    /\ uploading = 0
    /\ tasks[j].pc = "extract"
    /\ \E shape \in JobShapes :
          tasks' = [tasks EXCEPT
                ![j].pc = "embed",
                ![j].shape = shape,
                ![j].emb = [n \in 1..Len(AllConcepts(Book(j, shape))) |-> "none"],
                ![j].stages = Invoke(Returned(@), "embed")]
    /\ processing_jobs' = [processing_jobs EXCEPT ![j].progress = ProgressAfter("extract")]
    /\ UNCHANGED <<uploading, vectors>>
    /\ UNCHANGED <<graphVars, embedVars, structVars>>
    /\ UNCHANGED storeVars
    /\ UNCHANGED query
    /\ UNCHANGED <<segVars, indexVars>>

\* lines 107, 140-144: extract_from_bytes raised
ExtractRaise(j) ==
    /\ uploading = 0
    /\ tasks[j].pc = "extract"
    /\ TaskRaise(j, "extract", "extract failed")
    /\ UNCHANGED <<uploading, vectors>>
    /\ UNCHANGED <<graphVars, embedVars, structVars>>
    /\ UNCHANGED storeVars
    /\ UNCHANGED query
    /\ UNCHANGED <<segVars, indexVars>>

\* lines 113-121: process_book returned, every concept carrying the
\* provider's vector or the zero placeholder; progress 50; the graph
\* session opens
EmbedReturn(j) ==
    /\ uploading = 0
    /\ tasks[j].pc = "embed"
    /\ \E embs \in EmbeddingLists(Len(tasks[j].emb)) :
       \E called \in ProviderCalled(embs) :
          tasks' = [tasks EXCEPT
                ![j].pc = "graph",
                ![j].emb = AssignEmbeddings(@, embs),
                ![j].called = called,
                ![j].gst = GraphStart,
                ![j].stages = Invoke(Returned(@), "graph")]
    /\ processing_jobs' = [processing_jobs EXCEPT ![j].progress = ProgressAfter("embed")]
    /\ UNCHANGED <<uploading, vectors>>
    /\ UNCHANGED <<graphVars, embedVars, structVars>>
    /\ UNCHANGED storeVars
    /\ UNCHANGED query
    /\ UNCHANGED <<segVars, indexVars>>

\* lines 113-114, 140-144: EmbeddingGenerator() raised (no API key, no
\* encoding); generate_embeddings_batch itself does not raise
EmbedRaise(j) ==
    /\ uploading = 0
    /\ tasks[j].pc = "embed"
    /\ TaskRaise(j, "embed", "embed failed")
    /\ UNCHANGED <<uploading, vectors>>
    /\ UNCHANGED <<graphVars, embedVars, structVars>>
    /\ UNCHANGED storeVars
    /\ UNCHANGED query
    /\ UNCHANGED <<segVars, indexVars>>

\* line 121: one awaited call of create_book_graph commits; after the last
\* one create_book_graph returns: progress 75 and the vector stage starts
JobGraphStep(j) ==
    /\ uploading = 0
    /\ tasks[j].pc = "graph"
    /\ graph' = GraphWrite(graph, BookOfTask(j), tasks[j].gst)
    /\ IF GraphNextSt(BookOfTask(j), tasks[j].gst).pc = "done"
       THEN /\ tasks' = [tasks EXCEPT
                    ![j].pc = "vector",
                    ![j].gst = GraphDone,
                    ![j].stages = Invoke(Returned(@), "vector")]
            /\ processing_jobs' = [processing_jobs EXCEPT ![j].progress = ProgressAfter("graph")]
       ELSE /\ tasks' = [tasks EXCEPT ![j].gst = GraphNextSt(BookOfTask(j), @)]
            /\ UNCHANGED processing_jobs
    /\ UNCHANGED <<uploading, vectors>>
    /\ UNCHANGED <<gbase, gbook, gst, gruns, gfailat, glast, gsnap>>
    /\ UNCHANGED <<embedVars, structVars>>
    /\ UNCHANGED storeVars
    /\ UNCHANGED query
    /\ UNCHANGED <<segVars, indexVars>>

\* lines 121, 140-144: an awaited call of create_book_graph raised
JobGraphRaise(j) ==
    /\ uploading = 0
    /\ tasks[j].pc = "graph"
    /\ TaskRaise(j, "graph", "graph failed")
    /\ UNCHANGED <<uploading, vectors>>
    /\ UNCHANGED <<graphVars, embedVars, structVars>>
    /\ UNCHANGED storeVars
    /\ UNCHANGED query
    /\ UNCHANGED <<segVars, indexVars>>

\* lines 127-138: store_book_vectors returned (it swallows the upserts that
\* raise); progress 100, status COMPLETED
VectorReturn(j) ==
    /\ uploading = 0
    /\ tasks[j].pc = "vector"
    /\ \E failed \in SUBSET (1..NumBatches(Len(VectorData(AllConcepts(BookOfTask(j)),
                                                        tasks[j].emb)),
                                          vector_batch_size)) :
          vectors' = vectors \cup store_book_vectors(BookOfTask(j), tasks[j].emb, failed).stored
    /\ tasks' = [tasks EXCEPT
            ![j].pc = "finished",
            ![j].submitted = VectorData(AllConcepts(BookOfTask(j)), tasks[j].emb),
            ![j].stages = Returned(@)]
    /\ processing_jobs' = [processing_jobs EXCEPT ![j] = CompleteJob(@)]
    /\ UNCHANGED uploading
    /\ UNCHANGED <<graphVars, embedVars, structVars>>
    /\ UNCHANGED storeVars
    /\ UNCHANGED query
    /\ UNCHANGED <<segVars, indexVars>>

Next ==
    \/ UploadCreate
    \/ UploadStored
    \/ UploadFailed
    \/ \E j \in 1..Len(tasks) : TaskStart(j)
    \/ \E j \in 1..Len(tasks) : ExtractReturn(j)
    \/ \E j \in 1..Len(tasks) : ExtractRaise(j)
    \/ \E j \in 1..Len(tasks) : EmbedReturn(j)
    \/ \E j \in 1..Len(tasks) : EmbedRaise(j)
    \/ \E j \in 1..Len(tasks) : JobGraphStep(j)
    \/ \E j \in 1..Len(tasks) : JobGraphRaise(j)
    \/ \E j \in 1..Len(tasks) : VectorReturn(j)

Spec == InitJobs /\ [][Next]_vars

\* the steps of the task of job j
TaskStep(j) ==
    /\ j \in 1..Len(tasks)
    /\ \/ TaskStart(j)
       \/ ExtractReturn(j)
       \/ ExtractRaise(j)
       \/ EmbedReturn(j)
       \/ EmbedRaise(j)
       \/ JobGraphStep(j)
       \/ JobGraphRaise(j)
       \/ VectorReturn(j)

\* the task of job j is scheduled and not finished, and no upload_pdf call
\* holds the event loop: some step of the task can be taken
TaskReady(j) ==
    /\ j \in 1..Len(tasks)
    /\ uploading = 0
    /\ tasks[j].pc \in {"queued", "extract", "embed", "graph", "vector"}

\* TaskReady(j) is the enabling condition of the steps of task j
TaskReadyIsEnabled ==
    \A j \in JobIds : TaskReady(j) <=> ENABLED <<TaskStep(j)>>_vars

\* Spec with the event loop running what is ready: put_object returns or
\* raises, and every call a scheduled task awaits returns or raises (weak
\* fairness of the steps of each task, the enabling condition written out)
SpecLive ==
    /\ InitJobs /\ [][Next]_vars
    /\ WF_vars(UploadStored \/ UploadFailed)
    /\ \A j \in JobIds : []<>(~TaskReady(j)) \/ []<><<TaskStep(j)>>_vars

(***************************************************************************)
(* Claims about the job life cycle (checked under Spec).                   *)
(***************************************************************************)
Jobs == 1..Len(processing_jobs)

StageOrder == <<"extract", "embed", "graph", "vector">>

StageNames(j) == [n \in 1..Len(tasks[j].stages) |-> tasks[j].stages[n].stage]

StageRaised(j, stage) ==
    \E n \in 1..Len(tasks[j].stages) :
        tasks[j].stages[n] = [stage |-> stage, outcome |-> "raised"]

StageReturned(j, stage) ==
    \E n \in 1..Len(tasks[j].stages) :
        tasks[j].stages[n] = [stage |-> stage, outcome |-> "returned"]

PipelineSteps ==
    {<<"pending", "processing">>, <<"processing", "completed">>,
     <<"processing", "failed">>}

C3_CompletedOnlyAfterAllStages ==
    \A j \in Jobs :
        processing_jobs[j].status = "completed" =>
            /\ tasks[j].stages =
                  [n \in 1..4 |-> [stage |-> StageOrder[n], outcome |-> "returned"]]
            /\ processing_jobs[j].progress = 100

C3_Witness ==
    \E j \in Jobs :
        /\ processing_jobs[j].status = "completed"
        /\ Len(BookOfTask(j).chapters) = 2
        /\ tasks[j].pc = "finished"

\* C4: the stages of a job are invoked in the order extract, embed,
\* graph-write, vector-write, each at most once, and a stage is invoked only
\* if every earlier stage returned; vector-write is never invoked after a
\* graph-write that raised.
C4_StageOrder ==
    \A j \in Jobs :
        /\ Len(tasks[j].stages) <= 4
        /\ StageNames(j) = SubSeq(StageOrder, 1, Len(tasks[j].stages))
        /\ \A n \in 1..(Len(tasks[j].stages) - 1) :
              tasks[j].stages[n].outcome = "returned"
        /\ StageRaised(j, "graph") => "vector" \notin SeqToSet(StageNames(j))

C4_Witness ==
    \E j, k \in Jobs :
        /\ StageNames(j) = <<"extract", "embed", "graph">>
        /\ StageRaised(j, "graph")
        /\ tasks[j].pc = "finished"
        /\ StageNames(k) = StageOrder
        /\ tasks[k].pc = "finished"

\* the stage of job j that raised, "none" when none did
RaisedStage(j) ==
    IF \E n \in 1..Len(tasks[j].stages) : tasks[j].stages[n].outcome = "raised"
    THEN tasks[j].stages[Len(tasks[j].stages)].stage
    ELSE "none"

\* the record of job j as its own upload and its own task alone make it:
\* from the outcome of its upload and the log of its stages
RecordAlone(j) ==
    LET t == tasks[j]
        nreturned == Cardinality({n \in 1..Len(t.stages) : t.stages[n].outcome = "returned"})
    IN  CASE t.pc = "none" /\ uploading = j ->
                [status |-> "pending", progress |-> 0, error_message |-> NoMessage]
          [] t.pc = "none" /\ uploading # j ->
                [status |-> "failed", progress |-> 0, error_message |-> "upload failed"]
          [] t.pc = "queued" ->
                [status |-> "pending", progress |-> 0, error_message |-> NoMessage]
          [] t.pc = "finished" /\ RaisedStage(j) = "none" ->
                [status |-> "completed", progress |-> 100, error_message |-> NoMessage]
          [] t.pc = "finished" /\ RaisedStage(j) # "none" ->
                [status |-> "failed", progress |-> 25 * nreturned,
                 error_message |-> CASE RaisedStage(j) = "extract" -> "extract failed"
                                     [] RaisedStage(j) = "embed" -> "embed failed"
                                     [] OTHER -> "graph failed"]
          [] OTHER ->
                [status |-> "processing", progress |-> 25 * nreturned,
                 error_message |-> NoMessage]

\* the store after the calls of create_book_graph from st up to, not
\* including, the one at target
RECURSIVE RunTo(_, _, _, _)
RunTo(g, book, st, target) ==
    IF st = target \/ st.pc = "done" THEN g
    ELSE RunTo(GraphWrite(g, book, st), book, GraphNextSt(book, st), target)

\* the positions a create_book_graph call of a task can be at
GraphPositions ==
    {[pc |-> pc, idx |-> idx] :
        pc \in {"book", "chapter", "prereq", "indexes", "done"}, idx \in 0..MaxChapters}

\* for every job, Book and position: the store a create_book_graph call on
\* that Book alone, on an empty store, has made when it is at the position
AloneAt ==
    [j \in JobIds |-> [shape \in JobShapes |-> [st \in GraphPositions |->
        RunTo(EmptyGraph, Book(j, shape), GraphStart, st)]]]

\* what the graph writes job j has made so far leave on an empty store
GraphAlone(j) ==
    IF tasks[j].gst.pc = "unused" THEN EmptyGraph
    ELSE AloneAt[j][tasks[j].shape][tasks[j].gst]

RecordsAsAlone == \A j \in Jobs : processing_jobs[j] = RecordAlone(j)

GraphIsUnion ==
    LET alone == [j \in Jobs |-> GraphAlone(j)]
    IN  /\ graph.nodes = UNION {alone[j].nodes : j \in Jobs}
        /\ graph.edges = UNION {alone[j].edges : j \in Jobs}
        /\ graph.indexes = UNION {alone[j].indexes : j \in Jobs}

\* a step that writes the record of job j is a step of j's own upload or
\* task, and it leaves every other job's record and task as they were
OwnRecordOnly ==
    \A j \in Jobs :
        processing_jobs'[j] # processing_jobs[j] =>
            /\ tasks'[j] # tasks[j] \/ uploading = j
            /\ \A k \in Jobs \ {j} :
                  /\ processing_jobs'[k] = processing_jobs[k]
                  /\ tasks'[k] = tasks[k]

\* C18: however the tasks of different jobs interleave, each job's status,
\* progress and error message are written by its own task only and are what
\* the job's own run makes them (a failure of one job leaves the other
\* job's record alone), and the graph store holds the union of what each
\* book's writes leave when made alone.
C18_JobsIndependent ==
    [](RecordsAsAlone /\ GraphIsUnion) /\ [][OwnRecordOnly]_vars

\* two jobs with a book each: the first failed in the graph stage after its
\* chapters were written, the second completed
C18_Witness ==
    /\ Len(processing_jobs) = 2
    /\ Len(BookOfTask(1).chapters) = 2
    /\ Len(BookOfTask(2).chapters) = 2
    /\ processing_jobs[1].status = "failed"
    /\ tasks[1].gst.pc = "prereq"
    /\ processing_jobs[2].status = "completed"
    /\ Cardinality(graph.nodes) = 14
    /\ Cardinality(graph.edges) = 13

\* the stages of job j that have returned
StagesReturned(j) ==
    {n \in 1..Len(tasks[j].stages) : tasks[j].stages[n].outcome = "returned"}

ProgressCounts ==
    \A j \in Jobs :
        /\ processing_jobs[j].progress \in {0, 25, 50, 75, 100}
        /\ processing_jobs[j].progress = 25 * Cardinality(StagesReturned(j))

ProgressGrows ==
    \A j \in Jobs : processing_jobs'[j].progress >= processing_jobs[j].progress

\* C20: in every state a poller can see, a job's progress is one of 0, 25,
\* 50, 75, 100 and is 25 times the number of stages that have returned for
\* the job; no step makes it smaller.
C20_ProgressHeartbeat == [](ProgressCounts) /\ [][ProgressGrows]_vars

\* a job that failed in the graph stage stays at 50 while another one is
\* completed at 100
C20_Witness ==
    \E j, k \in Jobs :
        /\ processing_jobs[j].status = "failed"
        /\ StageRaised(j, "graph")
        /\ processing_jobs[j].progress = 50
        /\ processing_jobs[k].status = "completed"
        /\ processing_jobs[k].progress = 100

ConceptIdsOf(j) ==
    [n \in 1..Len(AllConcepts(BookOfTask(j))) |->
        AllConcepts(BookOfTask(j))[n].concept_id]

\* C27: once process_book has returned for a job, every concept of its book
\* carries an embedding, a vector of the provider or the placeholder of
\* zeros; once store_book_vectors has returned, the vectors it handed to
\* upsert are one per concept of the book, in document order, the concepts
\* with the placeholder included.
C27_OneVectorPerConcept ==
    \A j \in Jobs :
        /\ StageReturned(j, "embed") =>
              /\ Len(tasks[j].emb) = Len(AllConcepts(BookOfTask(j)))
              /\ \A n \in 1..Len(tasks[j].emb) :
                    tasks[j].emb[n] \in {"vector", "zero"}
        /\ StageReturned(j, "vector") => tasks[j].submitted = ConceptIdsOf(j)

\* a book of two concepts, the first with the placeholder, both submitted
C27_Witness ==
    \E j \in Jobs :
        /\ StageReturned(j, "vector")
        /\ tasks[j].emb = <<"zero", "vector">>
        /\ Len(tasks[j].submitted) = 2

(***************************************************************************)
(* SpecGraph: create_book_graph called again and again on one Book, each   *)
(* call free to raise at any of its awaited calls.                         *)
(***************************************************************************)
OtherBook == Book("other", <<<<2>>>>)

InitGraph ==
    /\ SegmentUnused
    /\ IndexUnused
    /\ QueryUnused
    /\ StoreUnused
    /\ EmbedUnused
    /\ StructUnused
    /\ JobsUnused
    /\ gbook \in {Book("b1", s) : s \in BookShapes}
    /\ gbase \in {EmptyGraph, RunAll(EmptyGraph, OtherBook, GraphStart)}
    /\ graph = gbase
    /\ gst = [pc |-> "idle", idx |-> 0]
    /\ gruns = 0
    /\ gfailat = "never"
    /\ glast = "none"
    /\ gsnap = EmptyGraph

\* create_book_graph is called: the session opens
GraphCall ==
    /\ gst.pc = "idle"
    /\ gruns < MaxRuns
    /\ gst' = GraphStart
    /\ UNCHANGED <<graph, gbase, gbook, gruns, gfailat, glast, gsnap>>
    /\ UNCHANGED embedVars
    /\ UNCHANGED structVars
    /\ UNCHANGED jobVars
    /\ UNCHANGED storeVars
    /\ UNCHANGED query
    /\ UNCHANGED <<segVars, indexVars>>

\* the awaited call at gst commits
GraphStepOk ==
    /\ gst.pc \in {"book", "chapter", "prereq", "indexes"}
    /\ graph' = GraphWrite(graph, gbook, gst)
    /\ IF GraphNextSt(gbook, gst).pc = "done"
       THEN /\ gst' = [pc |-> "idle", idx |-> 0]
            /\ gruns' = gruns + 1
            /\ glast' = "ok"
            /\ gsnap' = IF gruns = 0 THEN graph' ELSE gsnap
       ELSE /\ gst' = GraphNextSt(gbook, gst)
            /\ UNCHANGED <<gruns, glast, gsnap>>
    /\ UNCHANGED <<gbase, gbook, gfailat>>
    /\ UNCHANGED embedVars
    /\ UNCHANGED structVars
    /\ UNCHANGED jobVars
    /\ UNCHANGED storeVars
    /\ UNCHANGED query
    /\ UNCHANGED <<segVars, indexVars>>

\* the awaited call at gst raises: its transaction is rolled back and
\* create_book_graph re-raises (lines 43-45)
GraphStepRaise ==
    /\ gst.pc \in {"book", "chapter", "prereq", "indexes"}
    /\ gst' = [pc |-> "idle", idx |-> 0]
    /\ gfailat' = gst.pc
    /\ glast' = "raised"
    /\ UNCHANGED <<graph, gbase, gbook, gruns, gsnap>>
    /\ UNCHANGED embedVars
    /\ UNCHANGED structVars
    /\ UNCHANGED jobVars
    /\ UNCHANGED storeVars
    /\ UNCHANGED query
    /\ UNCHANGED <<segVars, indexVars>>

NextGraph == GraphCall \/ GraphStepOk \/ GraphStepRaise

SpecGraph == InitGraph /\ [][NextGraph]_vars

(***************************************************************************)
(* Claims about create_book_graph (checked under SpecGraph).               *)
(***************************************************************************)
GraphIdle == gst.pc = "idle"

\* what one materialisation of a book is to leave in the store, stated
\* from the Book alone: one node per object, one edge per containment and
\* per adjacent pair of concepts, nothing twice
BookNodes(book) ==
    {[label |-> "Book", id |-> book.book_id, props |-> [title |-> book.title], copy |-> 1]}
    \cup {[label |-> "Chapter", id |-> book.chapters[i].chapter_id,
           props |-> [title |-> <<"chapter", book.chapters[i].number>>], copy |-> 1]
            : i \in 1..Len(book.chapters)}
    \cup UNION {{[label |-> "Section", id |-> book.chapters[i].sections[j].section_id,
                  props |-> [title |-> <<"section", book.chapters[i].sections[j].number>>],
                  copy |-> 1]
                    : j \in 1..Len(book.chapters[i].sections)}
                : i \in 1..Len(book.chapters)}
    \cup {[label |-> "Concept", id |-> AllConcepts(book)[n].concept_id,
           props |-> [title |-> AllConcepts(book)[n].name], copy |-> 1]
            : n \in 1..Len(AllConcepts(book))}

ChainPairs(book) ==
    {<<AllConcepts(book)[n].concept_id, AllConcepts(book)[n + 1].concept_id>>
        : n \in 1..(Len(AllConcepts(book)) - 1)}

BookEdges(book) ==
    {[type |-> "HAS_CHAPTER", from |-> book.book_id,
      to |-> book.chapters[i].chapter_id, copy |-> 1] : i \in 1..Len(book.chapters)}
    \cup UNION {{[type |-> "HAS_SECTION", from |-> book.chapters[i].chapter_id,
                  to |-> book.chapters[i].sections[j].section_id, copy |-> 1]
                    : j \in 1..Len(book.chapters[i].sections)}
                : i \in 1..Len(book.chapters)}
    \cup UNION {UNION {{[type |-> "HAS_CONCEPT",
                         from |-> book.chapters[i].sections[j].section_id,
                         to |-> book.chapters[i].sections[j].concepts[k].concept_id,
                         copy |-> 1]
                            : k \in 1..Len(book.chapters[i].sections[j].concepts)}
                       : j \in 1..Len(book.chapters[i].sections)}
                : i \in 1..Len(book.chapters)}
    \cup {[type |-> "PREREQUISITE", from |-> p[1], to |-> p[2], copy |-> 1]
            : p \in ChainPairs(book)}

Materialized(base, book) ==
    [nodes   |-> base.nodes \cup BookNodes(book),
     edges   |-> base.edges \cup BookEdges(book),
     indexes |-> IndexSet]

\* C7: when create_book_graph has returned twice (or more) on the same Book
\* and no call raised, the store holds exactly the nodes and the HAS_CHAPTER,
\* HAS_SECTION, HAS_CONCEPT and PREREQUISITE edges it held when the first
\* call returned.
C7_Idempotent ==
    (GraphIdle /\ gruns >= 2 /\ gfailat = "never") => graph = gsnap

C7_Witness ==
    /\ GraphIdle /\ gruns = 2 /\ gfailat = "never"
    /\ Len(gbook.chapters) = 2
    /\ Len(AllConcepts(gbook)) = 3
    /\ Cardinality(graph.edges \ gbase.edges) >= 6

\* C8: when a create_book_graph call has raised (after any prefix of its
\* writes) and the last call on the same Book returned normally, the store
\* is exactly what one successful call leaves: every node and edge of the
\* book once, none twice, none missing.
C8_RetrySafe ==
    (GraphIdle /\ gfailat # "never" /\ glast = "ok")
        => graph = Materialized(gbase, gbook)

C8_Witness ==
    /\ GraphIdle /\ gfailat = "prereq" /\ glast = "ok" /\ gruns = 1
    /\ Len(gbook.chapters) = 2
    /\ Len(AllConcepts(gbook)) = 3

VectorBookSizes ==
    (0..MaxConcepts)
    \cup {k * vector_batch_size + d : k \in 1..MaxVectorBatches, d \in {0, 1}}

\* concept.embedding of each concept: any mix for a small Book; for a large
\* one, vectors everywhere except None at some of the batch borders
EmbeddingPatterns(n) ==
    IF n <= MaxConcepts THEN [1..n -> {"none", "vector", "zero"}]
    ELSE {[k \in 1..n |-> IF k \in none THEN "none" ELSE "vector"]
            : none \in SUBSET {1, vector_batch_size, vector_batch_size + 1}}

\* lines 24-35: the list `vectors` of the running call
StoreData == VectorData(AllConcepts(vbook), vemb)

\* the loop is left at the first failed upsert
UpsertFailed_abort(i, n) == n

\* lines 56-61: the except clause logs; the loop goes on with the next i
UpsertFailed(i, n) == i + vector_batch_size

InitStore ==
    /\ SegmentUnused
    /\ IndexUnused
    /\ QueryUnused
    /\ GraphUnused
    /\ EmbedUnused
    /\ StructUnused
    /\ processing_jobs = <<[ProcessingJob EXCEPT !.status = "processing", !.progress = 75]>>
    /\ tasks = <<>>
    /\ uploading = 0
    /\ vectors = {}
    /\ \E n \in VectorBookSizes :
          /\ vbook = Book("b1", <<<<n>>>>)
          /\ vemb \in EmbeddingPatterns(n)
    /\ vst = [pc |-> "idle", i |-> 0, stored_count |-> 0]
    /\ vlog = <<>>

\* processing.py line 128, vector_store.py lines 24-35: the call; the
\* vectors are collected
StoreCall ==
    /\ vst.pc = "idle"
    /\ vst' = [pc |-> "upsert", i |-> 0, stored_count |-> 0]
    /\ UNCHANGED <<vbook, vemb, vlog>>
    /\ UNCHANGED <<graphVars, embedVars, structVars, jobVars>>
    /\ UNCHANGED query
    /\ UNCHANGED <<segVars, indexVars>>

\* lines 38-54: the upsert of batch vectors[i:i + batch_size] returns
UpsertOk ==
    /\ vst.pc = "upsert"
    /\ vst.i < Len(StoreData)
    /\ LET batch == BatchSlice(StoreData, vst.i, vector_batch_size)
       IN  /\ vectors' = vectors \cup SeqToSet(batch)
           /\ vst' = [vst EXCEPT !.i = @ + vector_batch_size,
                                 !.stored_count = @ + Len(batch)]
           /\ vlog' = Append(vlog, [start |-> vst.i, ids |-> batch, ok |-> TRUE])
    /\ UNCHANGED <<vbook, vemb>>
    /\ UNCHANGED <<processing_jobs, tasks, uploading>>
    /\ UNCHANGED <<graphVars, embedVars, structVars>>
    /\ UNCHANGED query
    /\ UNCHANGED <<segVars, indexVars>>

\* lines 38-61: the upsert raises
UpsertRaise ==
    /\ vst.pc = "upsert"
    /\ vst.i < Len(StoreData)
    /\ vst' = [vst EXCEPT !.i = UpsertFailed(vst.i, Len(StoreData))]
    /\ vlog' = Append(vlog, [start |-> vst.i,
                             ids |-> BatchSlice(StoreData, vst.i, vector_batch_size),
                             ok |-> FALSE])
    /\ UNCHANGED <<vbook, vemb>>
    /\ UNCHANGED <<graphVars, embedVars, structVars, jobVars>>
    /\ UNCHANGED query
    /\ UNCHANGED <<segVars, indexVars>>

\* vector_store.py lines 63-70, processing.py lines 130-132: the loop is
\* over, store_book_vectors returns stored_count; progress 100, COMPLETED
StoreReturn ==
    /\ vst.pc = "upsert"
    /\ vst.i >= Len(StoreData)
    /\ vst' = [vst EXCEPT !.pc = "returned"]
    /\ processing_jobs' = [processing_jobs EXCEPT ![1] = CompleteJob(@)]
    /\ UNCHANGED <<vbook, vemb, vlog>>
    /\ UNCHANGED <<tasks, uploading, vectors>>
    /\ UNCHANGED <<graphVars, embedVars, structVars>>
    /\ UNCHANGED query
    /\ UNCHANGED <<segVars, indexVars>>

NextStore ==
    \/ StoreCall
    \/ UpsertOk
    \/ UpsertRaise
    \/ StoreReturn

SpecStore == InitStore /\ [][NextStore]_vars

(***************************************************************************)
(* Claims about store_book_vectors (checked under SpecStore).              *)
(***************************************************************************)
StoreReturned == vst.pc = "returned"

\* the concepts of the Book that carry an embedding
WithEmbedding ==
    {AllConcepts(vbook)[n].concept_id : n \in {k \in 1..Len(vemb) : vemb[k] # "none"}}

\* the upsert calls that returned
OkCalls == {k \in 1..Len(vlog) : vlog[k].ok}

\* C12: store_book_vectors hands to the vector store exactly the concepts
\* that have an embedding, each once, and returns; when every upsert
\* succeeds, the store holds, and the returned count is, the number of
\* concepts with an embedding (2 for one of three without).
C12_SkipsMissingEmbeddings ==
    StoreReturned =>
        /\ UNION {SeqToSet(vlog[k].ids) : k \in 1..Len(vlog)} = WithEmbedding
        /\ SumSeq([k \in 1..Len(vlog) |-> Len(vlog[k].ids)]) = Cardinality(WithEmbedding)
        /\ OkCalls = 1..Len(vlog) =>
              /\ vectors = WithEmbedding
              /\ vst.stored_count = Cardinality(WithEmbedding)

\* the example: three concepts, one without an embedding, the upsert
\* succeeded, two vectors stored
C12_Witness ==
    /\ StoreReturned
    /\ Len(vemb) = 3
    /\ Cardinality({k \in 1..3 : vemb[k] = "none"}) = 1
    /\ OkCalls = 1..Len(vlog)
    /\ Cardinality(vectors) = 2
    /\ vst.stored_count = 2

\* C13: whatever upserts failed, every batch was submitted (the failed one
\* is followed by the later ones), store_book_vectors returned the sum of
\* the sizes of the batches that succeeded, only those are in the store,
\* and the job is completed with progress 100.
C13_BatchFailureRecovered ==
    StoreReturned =>
        /\ Len(vlog) = NumBatches(Len(StoreData), vector_batch_size)
        /\ \A k \in 1..Len(vlog) :
              /\ vlog[k].start = (k - 1) * vector_batch_size
              /\ vlog[k].ids = BatchSlice(StoreData, vlog[k].start, vector_batch_size)
        /\ vst.stored_count = SumSeq([k \in 1..Len(vlog) |->
                                        IF vlog[k].ok THEN Len(vlog[k].ids) ELSE 0])
        /\ vectors = UNION {SeqToSet(vlog[k].ids) : k \in OkCalls}
        /\ processing_jobs[1].status = "completed"
        /\ processing_jobs[1].progress = 100
        /\ processing_jobs[1].error_message = NoMessage

\* the first upsert failed, two later ones succeeded, the job completed
C13_Witness ==
    /\ StoreReturned
    /\ Len(vlog) = 3
    /\ ~vlog[1].ok
    /\ vlog[2].ok
    /\ vlog[3].ok
    /\ vst.stored_count = vector_batch_size + 1
    /\ Cardinality(vectors) = vector_batch_size + 1
    /\ processing_jobs[1].status = "completed"

(***************************************************************************)
(* The graph queries: GraphManager.find_learning_path (graph_manager.py)   *)
(* behind GET /path, and GET /prerequisites/{concept_id} (routers/graph.py)*)
(* The Cypher of each query is evaluated on the store as the statements of *)
(* create_book_graph left it.                                              *)
(***************************************************************************)
minutes_per_concept == 15

PrereqEdges(g) == {e \in g.edges : e.type = "PREREQUISITE"}

\* the end of a path
Last(p) == p[Len(p)]

\* the paths one PREREQUISITE relationship longer, followed either way
PrereqStep_undirected(g, paths) ==
    UNION {{Append(p, e.to) : e \in {x \in PrereqEdges(g) : x.from = Last(p)}}
           \cup {Append(p, e.from) : e \in {x \in PrereqEdges(g) : x.to = Last(p)}}
            : p \in paths}

\* -[:PREREQUISITE*]->: the paths one relationship longer, along its direction
PrereqStep(g, paths) ==
    UNION {{Append(p, e.to) : e \in {x \in PrereqEdges(g) : x.from = Last(p)}}
            : p \in paths}

\* breadth first: the paths of the least number (>= 1) of relationships
\* that end in to_id
RECURSIVE ShortestFrom(_, _, _, _)
ShortestFrom(g, paths, to_id, fuel) ==
    IF paths = {} \/ fuel = 0 THEN {}
    ELSE LET next == PrereqStep(g, paths)
             hits == {p \in next : Last(p) = to_id}
         IN  IF hits # {} THEN hits ELSE ShortestFrom(g, next, to_id, fuel - 1)

\* MATCH path = shortestPath((from:Concept {id: $from_id})
\*     -[:PREREQUISITE*]->(to:Concept {id: $to_id})): the rows, each the
\* ids of nodes(path)
shortestPath(g, from_id, to_id) ==
    IF MatchNodes(g, "Concept", from_id) = {} \/ MatchNodes(g, "Concept", to_id) = {}
    THEN {}
    ELSE ShortestFrom(g, {<<from_id>>}, to_id, Cardinality(PrereqEdges(g)))

\* the relationships of the path counted in the place of its nodes
LearningPath_hops(from_id, to_id, path_nodes) ==
    [kind |-> "path", from_concept |-> from_id, to_concept |-> to_id,
     path |-> path_nodes,
     total_concepts |-> Len(path_nodes) - 1,
     estimated_time |-> (Len(path_nodes) - 1) * minutes_per_concept]

\* lines 283-289 and 256: LearningPath(**result)
LearningPath(from_id, to_id, path_nodes) ==
    [kind |-> "path", from_concept |-> from_id, to_concept |-> to_id,
     path |-> path_nodes,
     total_concepts |-> Len(path_nodes),
     estimated_time |-> Len(path_nodes) * minutes_per_concept]

\* line 257 / 291: None, which GET /path answers with 404
NotFound == [kind |-> "none"]

\* the query failed: find_learning_path re-raises, GET /path answers 500
QueryRaised == [kind |-> "raised"]

\* the start nodes of the PREREQUISITE relationships that end in `found`
Direct(g, found) == {e.from : e \in {x \in PrereqEdges(g) : x.to \in found}}

RECURSIVE Upstream(_, _, _)
Upstream(g, found, fuel) ==
    IF fuel = 0 THEN found
    ELSE Upstream(g, found \cup Direct(g, found), fuel - 1)

\* (c)<-[:PREREQUISITE]-(p): one relationship only
MatchPrerequisites_direct(g, concept_id) ==
    IF MatchNodes(g, "Concept", concept_id) = {} THEN {}
    ELSE Direct(g, {concept_id})

\* MATCH (c:Concept {id: $concept_id})<-[:PREREQUISITE*]-(p:Concept)
\* RETURN DISTINCT p: the start of every path of one or more relationships
MatchPrerequisites(g, concept_id) ==
    IF MatchNodes(g, "Concept", concept_id) = {} THEN {}
    ELSE Upstream(g, Direct(g, {concept_id}), Cardinality(PrereqEdges(g)))

\* the orders in which a result set can come back (ORDER BY p.name: a name
\* is the first sentence of a paragraph and orders the concepts any way)
Orderings(set) ==
    {seq \in [1..Cardinality(set) -> set] : SeqToSet(seq) = set}

\* the number of awaited calls create_book_graph makes from st to its return
RECURSIVE StepsToDone(_, _)
StepsToDone(book, st) ==
    IF st.pc = "done" THEN 0 ELSE 1 + StepsToDone(book, GraphNextSt(book, st))

\* the position create_book_graph is at after n calls committed
RECURSIVE StAfter(_, _, _)
StAfter(book, st, n) ==
    IF n = 0 \/ st.pc = "done" THEN st ELSE StAfter(book, GraphNextSt(book, st), n - 1)

\* the store after the first n calls of create_book_graph committed
RECURSIVE RunSteps(_, _, _, _)
RunSteps(g, book, st, n) ==
    IF n = 0 \/ st.pc = "done" THEN g
    ELSE RunSteps(GraphWrite(g, book, st), book, GraphNextSt(book, st), n - 1)

\* an id no node carries
UnknownId == Ident("nobook", "concept", 0, 0, 0)

\* the ids a client asks about: the concepts of the two books and an
\* unknown one
AskedIds ==
    {AllConcepts(gbook)[n].concept_id : n \in 1..Len(AllConcepts(gbook))}
    \cup {AllConcepts(OtherBook)[n].concept_id : n \in 1..Len(AllConcepts(OtherBook))}
    \cup {UnknownId}

\* the store as one create_book_graph call on gbook left it: returned, or
\* raised after n committed calls
InitQuery ==
    /\ SegmentUnused
    /\ IndexUnused
    /\ EmbedUnused
    /\ StructUnused
    /\ JobsUnused
    /\ StoreUnused
    /\ gbook \in {Book("b1", s) : s \in BookShapes}
    /\ gbase \in {EmptyGraph, RunAll(EmptyGraph, OtherBook, GraphStart)}
    /\ \E n \in 0..StepsToDone(gbook, GraphStart) :
          /\ graph = RunSteps(gbase, gbook, GraphStart, n)
          /\ gfailat = IF n = StepsToDone(gbook, GraphStart) THEN "never"
                       ELSE StAfter(gbook, GraphStart, n).pc
    /\ gst = [pc |-> "idle", idx |-> 0]
    /\ gruns = IF gfailat = "never" THEN 1 ELSE 0
    /\ glast = IF gfailat = "never" THEN "ok" ELSE "raised"
    /\ gsnap = IF gfailat = "never" THEN graph ELSE EmptyGraph
    /\ query = NoQuery

\* A query reads the store and writes nothing, so what one query answers
\* does not depend on the queries before it: a behaviour answers one.
Unanswered == query = NoQuery

\* find_learning_path: the query gives a row; lines 271-289, 255-256
FindPathFound ==
    /\ Unanswered
    /\ \E from_id \in AskedIds, to_id \in AskedIds :
          /\ from_id # to_id
          /\ \E path_nodes \in shortestPath(graph, from_id, to_id) :
                query' = [op |-> "find_learning_path", from |-> from_id, to |-> to_id,
                          result |-> LearningPath(from_id, to_id, path_nodes)]
    /\ UNCHANGED <<graphVars, embedVars, structVars, jobVars, storeVars>>
    /\ UNCHANGED <<segVars, indexVars>>

\* find_learning_path: the query gives no row; lines 269, 291, 257
FindPathNone ==
    /\ Unanswered
    /\ \E from_id \in AskedIds, to_id \in AskedIds :
          /\ shortestPath(graph, from_id, to_id) = {}
          /\ query' = [op |-> "find_learning_path", from |-> from_id, to |-> to_id,
                       result |-> NotFound]
    /\ UNCHANGED <<graphVars, embedVars, structVars, jobVars, storeVars>>
    /\ UNCHANGED <<segVars, indexVars>>

\* find_learning_path: from and to are the same node and the server refuses
\* shortestPath on it (its default setting); lines 259-261
FindPathSameNode ==
    /\ Unanswered
    /\ \E from_id \in AskedIds :
          /\ MatchNodes(graph, "Concept", from_id) # {}
          /\ query' = [op |-> "find_learning_path", from |-> from_id, to |-> from_id,
                       result |-> QueryRaised]
    /\ UNCHANGED <<graphVars, embedVars, structVars, jobVars, storeVars>>
    /\ UNCHANGED <<segVars, indexVars>>

\* GET /prerequisites/{concept_id}: routers/graph.py lines 41-59
GetPrerequisites ==
    /\ Unanswered
    /\ \E concept_id \in AskedIds :
          \E prerequisites \in Orderings(MatchPrerequisites(graph, concept_id)) :
             query' = [op |-> "get_prerequisites", from |-> concept_id, to |-> concept_id,
                       result |-> [kind |-> "list",
                                   prerequisites |-> prerequisites,
                                   total |-> Len(prerequisites)]]
    /\ UNCHANGED <<graphVars, embedVars, structVars, jobVars, storeVars>>
    /\ UNCHANGED <<segVars, indexVars>>

NextQuery ==
    \/ FindPathFound
    \/ FindPathNone
    \/ FindPathSameNode
    \/ GetPrerequisites

SpecQuery == InitQuery /\ [][NextQuery]_vars

(***************************************************************************)
(* Claims about the graph queries (checked under SpecQuery).               *)
(***************************************************************************)
\* the ids of the concepts of a book, in document order
ChainIds(book) == [n \in 1..Len(AllConcepts(book)) |-> AllConcepts(book)[n].concept_id]

\* the books whose whole prerequisite chain is in the store
ChainedBooks ==
    (IF gfailat = "never" THEN {gbook} ELSE {})
    \cup (IF gbase = EmptyGraph THEN {} ELSE {OtherBook})

\* the pairs (a, c) with a path of one or more relationships of R from a to c
RECURSIVE TransitiveClosure(_, _)
TransitiveClosure(R, fuel) ==
    LET RR == R \cup {<<q[1][1], q[2][2]>> : q \in {x \in R \X R : x[1][2] = x[2][1]}}
    IN  IF fuel = 0 \/ RR = R THEN R ELSE TransitiveClosure(RR, fuel - 1)

Routes == TransitiveClosure(PrereqPairs(graph), Cardinality(graph.edges))

AskedPath == query.op = "find_learning_path"

AskedPrerequisites == query.op = "get_prerequisites"

Completed(j) == processing_jobs[j].status = "completed"

EmptyExtracted(j) ==
    /\ j \in Jobs
    /\ StageReturned(j, "extract")
    /\ tasks[j].shape = <<>>

\* what holds of a job with an empty Book at every moment: no provider
\* call, no vector handed to upsert, nothing of it in the graph but the Book
\* node, progress 100 once completed, and failed only after a stage raised
EmptyBookJob(j) ==
    /\ ~tasks[j].called
    /\ tasks[j].submitted = <<>>
    /\ GraphAlone(j).nodes \subseteq BookNodes(BookOfTask(j))
    /\ GraphAlone(j).edges = {}
    /\ Completed(j) =>
          /\ processing_jobs[j].progress = 100
          /\ BookNodes(BookOfTask(j)) \subseteq graph.nodes
    /\ processing_jobs[j].status = "failed" =>
          StageRaised(j, "embed") \/ StageRaised(j, "graph")

\* job j is completed / failed after its embed or its graph stage raised
EndedCompleted(j) == j \in Jobs /\ Completed(j)
EndedGraphRaised(j) == j \in Jobs /\ StageRaised(j, "graph")
EndedEmbedRaised(j) == j \in Jobs /\ StageRaised(j, "embed")

EmptyBookJobs ==
    /\ GraphIsUnion
    /\ \A j \in Jobs : EmptyExtracted(j) => EmptyBookJob(j)

SegLine(len, lead, trail, markers) ==
    [len |-> len, lead |-> lead, trail |-> trail, markers |-> markers]

\* the empty line, a line of two blanks, and lines of text of 24, 25, 50 and
\* 52 characters, the last with three of them white space at its ends
SegmentLines ==
    {SegLine(0, 0, 0, {}), SegLine(2, 2, 0, {}), SegLine(24, 0, 0, {}),
     SegLine(25, 0, 0, {}), SegLine(50, 0, 0, {}), SegLine(52, 2, 1, {})}

\* "=" has no capital form
Occurrences ==
    {Occurrence(k, c) :
        k \in ExampleKeywords \cup FormulaKeywords \cup ExerciseKeywords \cup DefinitionKeywords,
        c \in BOOLEAN}
    \ {Occurrence("=", TRUE)}

RECURSIVE SubsetsUpTo(_, _)
SubsetsUpTo(S, k) ==
    IF k = 0 THEN {{}}
    ELSE LET smaller == SubsetsUpTo(S, k - 1)
         IN  smaller \cup {T \cup {x} : T \in smaller, x \in S}

AtPos(n, line) ==
    [pos |-> n, len |-> line.len, lead |-> line.lead, trail |-> line.trail,
     markers |-> line.markers]

InitSegment ==
    /\ IndexUnused
    /\ QueryUnused
    /\ StoreUnused
    /\ GraphUnused
    /\ EmbedUnused
    /\ StructUnused
    /\ JobsUnused
    /\ \/ \E m \in 0..MaxTextLines : \E f \in [1..m -> SegmentLines] :
             seg_text = [n \in 1..m |-> AtPos(n, f[n])]
       \/ \E markers \in SubsetsUpTo(Occurrences, MaxMarkers) :
             seg_text = <<AtPos(1, SegLine(60, 0, 0, markers))>>
    /\ seg_out = <<>>
    /\ seg_pc = "call"

\* lines 192-218: the call returns the list of Concepts
SegmentCall ==
    /\ seg_pc = "call"
    /\ seg_out' = _extract_concepts(seg_text)
    /\ seg_pc' = "returned"
    /\ UNCHANGED seg_text
    /\ UNCHANGED <<graphVars, embedVars, structVars, jobVars, storeVars>>
    /\ UNCHANGED query
    /\ UNCHANGED indexVars

NextSegment == SegmentCall

SpecSegment == InitSegment /\ [][NextSegment]_vars

(***************************************************************************)
(* Claims about _extract_concepts and _classify_content (checked under     *)
(* SpecSegment).                                                           *)
(***************************************************************************)
SegmentReturned == seg_pc = "returned"

\* a keyword of the list occurs in the lines of the Concept's content, in
\* small letters or in capitals
HasMarker(content, keywords) ==
    \E n \in 1..Len(content) : \E o \in content[n].markers : o.keyword \in keywords

\* the type the fixed priority gives a content
PriorityType(content) ==
    CASE HasMarker(content, ExampleKeywords) -> "example"
      [] ~HasMarker(content, ExampleKeywords) /\ HasMarker(content, FormulaKeywords) -> "formula"
      [] /\ ~HasMarker(content, ExampleKeywords \cup FormulaKeywords)
         /\ HasMarker(content, ExerciseKeywords) -> "exercise"
      [] /\ ~HasMarker(content, ExampleKeywords \cup FormulaKeywords \cup ExerciseKeywords)
         /\ HasMarker(content, DefinitionKeywords) -> "definition"
      [] OTHER -> "explanation"

\* C21: every Concept _extract_concepts returns carries the type of the
\* highest-priority keyword list (example, formula, exercise, definition)
\* of which a keyword occurs in its paragraph, and explanation when none
\* occurs; with an example keyword and a formula keyword it is example.
C21_ClassificationPriority ==
    SegmentReturned =>
        \A k \in 1..Len(seg_out) :
            /\ seg_out[k].type = PriorityType(seg_out[k].content)
            /\ (/\ HasMarker(seg_out[k].content, ExampleKeywords)
                /\ HasMarker(seg_out[k].content, FormulaKeywords))
               => seg_out[k].type = "example"

\* a paragraph with "EXAMPLE:" in capitals, "=" and "definition:" came out
\* as an example
C21_Witness ==
    /\ SegmentReturned
    /\ Len(seg_out) = 1
    /\ seg_out[1].content[1].markers =
          {Occurrence("example:", TRUE), Occurrence("=", FALSE),
           Occurrence("definition:", FALSE)}
    /\ seg_out[1].type = "example"

\* the paragraphs of the text: the longest runs of lines without an empty
\* line, as <<first, last>> line numbers
Runs ==
    {r \in (1..Len(seg_text)) \X (1..Len(seg_text)) :
        /\ r[1] <= r[2]
        /\ \A n \in r[1]..r[2] : seg_text[n].len # 0
        /\ r[1] = 1 \/ seg_text[r[1] - 1].len = 0
        /\ r[2] = Len(seg_text) \/ seg_text[r[2] + 1].len = 0}

\* the characters of a paragraph between its first and its last character
\* that is not white space
RunChars(r) ==
    LET inked == {n \in r[1]..r[2] : seg_text[n].lead # seg_text[n].len}
        first == CHOOSE n \in inked : \A m \in inked : n <= m
        last  == CHOOSE n \in inked : \A m \in inked : m <= n
    IN  IF inked = {} THEN 0
        ELSE SumSeq([n \in 1..(last - first + 1) |-> seg_text[first + n - 1].len])
             + (last - first) - seg_text[first].lead - seg_text[last].trail

RunOf(concept) == <<concept.content[1].pos, concept.content[Len(concept.content)].pos>>

\* C22: _extract_concepts returns no Concept for a paragraph of fewer than
\* 50 characters and exactly one, in the order of the text, for each
\* paragraph of 50 characters or more (characters counted as the code counts
\* them, without the white space at the ends of the paragraph).
C22_ShortParagraphsSkipped ==
    SegmentReturned =>
        /\ \A k \in 1..Len(seg_out) :
              RunOf(seg_out[k]) \in Runs /\ RunChars(RunOf(seg_out[k])) >= 50
        /\ \A r \in Runs :
              RunChars(r) >= 50 =>
                 Cardinality({k \in 1..Len(seg_out) : RunOf(seg_out[k]) = r}) = 1
        /\ \A k \in 1..Len(seg_out) : \A m \in 1..Len(seg_out) :
              k < m => RunOf(seg_out[k])[2] < RunOf(seg_out[m])[1]

\* a text of three paragraphs with an empty line between them: 50
\* characters, then 52 of which 49 count, then 50; two Concepts came out,
\* the first and the third paragraph
C22_Witness ==
    /\ SegmentReturned
    /\ [n \in 1..Len(seg_text) |-> seg_text[n].len] = <<50, 0, 52, 0, 50>>
    /\ RunChars(<<3, 3>>) = 49
    /\ Len(seg_out) = 2
    /\ RunOf(seg_out[1]) = <<1, 1>>
    /\ RunOf(seg_out[2]) = <<5, 5>>

(***************************************************************************)
(* SpecIndex: one delete_book_vectors call and up to MaxUpdates            *)
(* update_concept_metadata calls on one index, each call free to take its  *)
(* next step whenever it is awaiting: the calls are coroutines of one      *)
(* event loop and hand their index requests to the executor.  A request to *)
(* the index (fetch, upsert, delete by filter) is one step.                *)
(***************************************************************************)
VectorIds == {"c1", "c2"}

BookIds == {"b1", "b2"}

Difficulties == {"easy", "hard"}

\* the metadata store_book_vectors gives a vector, as far as it matters here
Metadata(book_id, difficulty, updated_at) ==
    [book_id |-> book_id, difficulty |-> difficulty, updated_at |-> updated_at]

NoVector == [found |-> FALSE, metadata |-> Metadata("none", "none", "never")]

UpdateCall(concept_id, patch) ==
    [pc |-> "fetch", concept_id |-> concept_id, patch |-> patch,
     current |-> NoVector, result |-> FALSE]

InitIndex ==
    /\ SegmentUnused
    /\ QueryUnused
    /\ StoreUnused
    /\ GraphUnused
    /\ EmbedUnused
    /\ StructUnused
    /\ JobsUnused
    /\ \E held \in SUBSET VectorIds : \E of \in [held -> BookIds] :
          index = [id \in held |-> Metadata(of[id], "easy", "never")]
    /\ \E n \in 0..MaxUpdates :
          \E cs \in [1..n -> VectorIds] : \E ps \in [1..n -> Difficulties] :
              updates = [u \in 1..n |-> UpdateCall(cs[u], [difficulty |-> ps[u]])]
    /\ \E book_id \in BookIds :
          deletion = [pc |-> "delete", book_id |-> book_id, result |-> FALSE]

IndexRest ==
    /\ UNCHANGED <<graphVars, embedVars, structVars, jobVars, storeVars>>
    /\ UNCHANGED query
    /\ UNCHANGED segVars

\* index.fetch([concept_id]): the vector when the index holds it
fetch(idx, concept_id) ==
    IF concept_id \in DOMAIN idx
    THEN [found |-> TRUE, metadata |-> idx[concept_id]]
    ELSE NoVector

\* index.upsert([{id, values, metadata}]): the vector is written, new or not
upsert(idx, concept_id, metadata) ==
    [id \in DOMAIN idx \cup {concept_id} |->
        IF id = concept_id THEN metadata ELSE idx[id]]

\* index.delete(filter={"book_id": book_id})
delete(idx, book_id) ==
    [id \in {x \in DOMAIN idx : idx[x].book_id # book_id} |-> idx[id]]

\* lines 198-200: current.metadata.copy(), update(metadata_updates),
\* updated_at set
updated_metadata(current, patch) ==
    [current EXCEPT !.difficulty = patch.difficulty, !.updated_at = "now"]

\* lines 193-195 (and 153-161): get_concept_by_id returned; without a vector
\* the call returns False
UpdateFetch(u) ==
    /\ updates[u].pc = "fetch"
    /\ LET current == fetch(index, updates[u].concept_id)
       IN  updates' = [updates EXCEPT
                ![u].current = current,
                ![u].pc = IF current.found THEN "upsert" ELSE "returned"]
    /\ UNCHANGED <<index, deletion>>
    /\ IndexRest

\* lines 163-165, 194-195: index.fetch raised; get_concept_by_id returns
\* None and the call returns False
UpdateFetchRaise(u) ==
    /\ updates[u].pc = "fetch"
    /\ updates' = [updates EXCEPT ![u].pc = "returned"]
    /\ UNCHANGED <<index, deletion>>
    /\ IndexRest

\* lines 203-213: the upsert returned and the call returns True
UpdateUpsert(u) ==
    /\ updates[u].pc = "upsert"
    /\ index' = upsert(index, updates[u].concept_id,
                       updated_metadata(updates[u].current.metadata, updates[u].patch))
    /\ updates' = [updates EXCEPT ![u].pc = "returned", ![u].result = TRUE]
    /\ UNCHANGED deletion
    /\ IndexRest

\* lines 215-221: the upsert raised and the call returns False
UpdateUpsertRaise(u) ==
    /\ updates[u].pc = "upsert"
    /\ updates' = [updates EXCEPT ![u].pc = "returned"]
    /\ UNCHANGED <<index, deletion>>
    /\ IndexRest

\* lines 169-179: index.delete returned and the call returns True
DeleteReturn ==
    /\ deletion.pc = "delete"
    /\ index' = delete(index, deletion.book_id)
    /\ deletion' = [deletion EXCEPT !.pc = "returned", !.result = TRUE]
    /\ UNCHANGED updates
    /\ IndexRest

\* lines 181-183: index.delete raised and the call returns False
DeleteRaise ==
    /\ deletion.pc = "delete"
    /\ deletion' = [deletion EXCEPT !.pc = "returned"]
    /\ UNCHANGED <<index, updates>>
    /\ IndexRest

NextIndex ==
    \/ \E u \in 1..Len(updates) : UpdateFetch(u)
    \/ \E u \in 1..Len(updates) : UpdateFetchRaise(u)
    \/ \E u \in 1..Len(updates) : UpdateUpsert(u)
    \/ \E u \in 1..Len(updates) : UpdateUpsertRaise(u)
    \/ DeleteReturn
    \/ DeleteRaise

SpecIndex == InitIndex /\ [][NextIndex]_vars

(***************************************************************************)
(* Claims about delete_book_vectors and update_concept_metadata (checked   *)
(* under SpecIndex).                                                       *)
(***************************************************************************)
DeleteReturnedTrue == deletion.pc = "returned" /\ deletion.result

UpdatesReturned == \A u \in 1..Len(updates) : updates[u].pc = "returned"

VectorsOfBook(book_id) == {id \in DOMAIN index : index[id].book_id = book_id}

\* C30: once delete_book_vectors(bookId) has returned true and every
\* update_concept_metadata call has returned, the index holds no vector
\* whose metadata book_id is bookId, however the delete fell among the fetch
\* and upsert steps of the updates.
C30_DeletedStayDeleted ==
    (DeleteReturnedTrue /\ UpdatesReturned) => VectorsOfBook(deletion.book_id) = {}

\* without an update in flight the delete does clear the book
DeleteAloneClears ==
    (DeleteReturnedTrue
        /\ \A u \in 1..Len(updates) :
              updates[u].pc = "fetch" \/ ~updates[u].current.found)
    => VectorsOfBook(deletion.book_id) = {}
====
